---- MODULE Spec2Model ----
(***************************************************************************)
(* Binary RPC message protocol of bxsec/gotool (package protocol): the     *)
(* 12-byte bit-packed Header, the length-prefixed Body, Encode / WriteTo / *)
(* Decode / ParseToBodyLen / Reset and the metadata TLV codec.             *)
(*                                                                         *)
(* Conventions.  A byte is a number in 0..255; a Go string or []byte value *)
(* is a sequence of bytes.  Go indexes from 0, TLA+ sequences from 1, so   *)
(* Go's h[i] is h[i+1] here.  A uint32 is kept at its width as a pair of   *)
(* 16-bit halves [hi, lo] (value hi * 65536 + lo): additions wrap modulo   *)
(* 2^32 exactly as the Go code does.  A Go int is 64 bits wide (amd64).    *)
(* A Go slice is [arr, len]: arr is the underlying array from the slice's  *)
(* first element up to its capacity, len the slice's length.               *)
(***************************************************************************)
EXTENDS Integers, Sequences, FiniteSets, TLC

VARIABLES
    m,                    \* the sender's Message (encoded by Encode / WriteTo)
    dm,                   \* the receiver's Message (target of Decode, reused)
    Compressors,          \* the package-level compressor registry
    MaxRpcMessageLength,  \* the package-level length limit (0 = unlimited)
    wire,                 \* the frame last produced and how (see NoWire)
    rd,                   \* the reader the last Decode read from: [buf, pos]
    ret,                  \* what the last operation returned
    steps,                \* operations applied to dm so far
    cfg,                  \* per Session: the sessionOption / Engine settings
    sess,                 \* per Session: the baseSession (closed, respQueue)
    tasks,                \* per Session, per request: its handleReq call
    rl,                   \* per Session: the readInbound goroutine
    wl,                   \* per Session: the writeOutbound goroutine
    conn,                 \* per Session: the connection
    engine,               \* the Engine: its settings, signals and accept loop
    rctx,                 \* a routeContext of a Session's ctxPool and its chain
    pools,                \* package pool: UsePool and the TypePools
    svc,                  \* a ServiceManager: its serviceMap and last lookup
    stores                \* routeContexts, their store maps and the goroutines using them

msgVars == <<m, dm, Compressors, MaxRpcMessageLength, wire, rd, ret, steps>>

sessVars == <<cfg, sess, tasks, rl, wl, conn>>

svcVars == <<svc, stores>>

engVars == <<engine, rctx, pools, svcVars>>

vars == <<m, dm, Compressors, MaxRpcMessageLength, wire, rd, ret, steps,
          cfg, sess, tasks, rl, wl, conn, engine, rctx, pools, svc, stores>>

----------------------------------------------------------------------------
(* Bounds of the model *)

\* payloads are all byte strings over PayloadBytes of at most this length
MaxPayloadLen == 2
\* the positive value MaxRpcMessageLength is set to
LimitL == 18
\* operations applied to one reused Message
MaxOps == 3

\* header setter calls in a run of SpecHeader
MaxSets == 2

----------------------------------------------------------------------------
(* Program constants *)

magicNumber == 8
None == 0
Gzip == 1
Request == 0
Response == 1

----------------------------------------------------------------------------
(* Bytes, uint32, slices *)

Zeros(n) == [i \in 1..n |-> 0]

Min(a, b) == IF a < b THEN a ELSE b

\* binary.BigEndian.PutUint32(b, uint32(v)), for 0 <= v < 2^31
PutUint32(v) ==
    << (v \div 16777216) % 256, (v \div 65536) % 256, (v \div 256) % 256, v % 256 >>

\* binary.BigEndian.Uint32(b)
Uint32(b) == [hi |-> b[1] * 256 + b[2], lo |-> b[3] * 256 + b[4]]

\* the uint32 of a small non-negative number
U32Of(i) == [hi |-> (i \div 65536) % 65536, lo |-> i % 65536]

\* uint32 addition and subtraction, modulo 2^32
U32Add(a, b) ==
    [hi |-> (a.hi + b.hi + ((a.lo + b.lo) \div 65536)) % 65536,
     lo |-> (a.lo + b.lo) % 65536]

U32Sub(a, b) ==
    [hi |-> (a.hi - b.hi - (IF a.lo < b.lo THEN 1 ELSE 0) + 65536) % 65536,
     lo |-> (a.lo - b.lo + 65536) % 65536]

U32Lt(a, b) == a.hi < b.hi \/ (a.hi = b.hi /\ a.lo < b.lo)

U32Le(a, b) == ~U32Lt(b, a)

\* int(l) for a uint32 l.  Every buffer of the model is shorter than 2^16
\* bytes, and an int is only ever compared with a buffer's length or
\* capacity, so all values from 2^30 on are represented by 2^30.
IntOf(l) == IF l.hi >= 16384 THEN 16384 * 65536 ELSE l.hi * 65536 + l.lo

\* copy(dst[lo:hi], src): min(hi - lo, len(src)) bytes are copied
CopyAt(dst, lo, hi, src) ==
    [i \in 1..Len(dst) |->
        IF i > lo /\ i <= hi /\ i - lo <= Len(src) THEN src[i - lo] ELSE dst[i]]

RECURSIVE Concat(_)
Concat(ss) == IF ss = <<>> THEN <<>> ELSE Head(ss) \o Concat(Tail(ss))

\* the orders in which a Go map range may visit the key set S
Orders(S) ==
    {o \in [1..Cardinality(S) -> S] :
        \A i, j \in 1..Cardinality(S) : i # j => o[i] # o[j]}

----------------------------------------------------------------------------
(* Header: type Header [12]byte *)

CheckMagicNumberSkipped(h) == TRUE

CheckMagicNumber(h) == h[1] = magicNumber

Version(h) == h[2]

SetVersion(h, v) == [h EXCEPT ![2] = v % 256]

\* RpcMessageType(h[2]&0x80) >> 7
MessageType(h) == h[3] \div 128

\* h[2] = h[2] | (byte(mt) << 7)
SetMessageType(h, mt) ==
    [h EXCEPT ![3] = IF mt % 2 = 1 /\ @ < 128 THEN @ + 128 ELSE @]

IsHeartbeat(h) == (h[3] \div 64) % 2 = 1

SetHeartbeat(h, hb) ==
    [h EXCEPT ![3] = IF hb THEN (IF (@ \div 64) % 2 = 1 THEN @ ELSE @ + 64)
                           ELSE (IF (@ \div 64) % 2 = 1 THEN @ - 64 ELSE @)]

IsOneway(h) == (h[3] \div 32) % 2 = 1

SetOneway(h, oneway) ==
    [h EXCEPT ![3] = IF oneway THEN (IF (@ \div 32) % 2 = 1 THEN @ ELSE @ + 32)
                               ELSE (IF (@ \div 32) % 2 = 1 THEN @ - 32 ELSE @)]

\* CompressType((h[2] & 0x1C) >> 2)
CompressType(h) == (h[3] \div 4) % 8

SetCompressTypeNoMask(h, ct) ==
    [h EXCEPT ![3] = (@ - ((@ \div 4) % 8) * 4 + (ct % 256) * 4) % 256]

\* h[2] = (h[2] &^ 0x1C) | ((byte(ct) << 2) & 0x1C)
SetCompressType(h, ct) ==
    [h EXCEPT ![3] = @ - ((@ \div 4) % 8) * 4 + (ct % 8) * 4]

MessageStatusType(h) == h[3] % 4

\* h[2] = (h[2] &^ 0x03) | (byte(mt) & 0x03)
SetMessageStatusType(h, mt) == [h EXCEPT ![3] = @ - (@ % 4) + (mt % 4)]

\* codec.CodecType((h[3] & 0xF0) >> 4)
SerializeType(h) == h[4] \div 16

\* h[3] = (h[3] &^ 0xF0) | (byte(st) << 4)
SetSerializeType(h, st) == [h EXCEPT ![4] = (@ % 16) + (st % 16) * 16]

\* binary.BigEndian.Uint64(h[4:]), as its 8 bytes
Seq8(h) == SubSeq(h, 5, 12)

\* binary.BigEndian.PutUint64(h[4:], seq), seq given as its 8 bytes
SetSeq(h, seq) == SubSeq(h, 1, 4) \o seq

\* copy(h[1:], zeroHeader)
resetHeader(h) == <<h[1]>> \o Zeros(11)

----------------------------------------------------------------------------
(* Message: values *)

\* a string or []byte field that owns its bytes
Val(bytes) == [view |-> FALSE, off |-> 0, len |-> 0, val |-> bytes]

\* a string or []byte field that aliases data[off : off+len] of the Message
View(off, len) == [view |-> TRUE, off |-> off, len |-> len, val |-> <<>>]

\* the bytes a field holds
FieldBytes(msg, f) ==
    IF f.view THEN SubSeq(msg.data.arr, f.off + 1, f.off + f.len) ELSE f.val

\* a Go map[string]string: nil, or a function on its key set
NilMap == [nil |-> TRUE, kv |-> << >>]

MapOf(kv) == [nil |-> FALSE, kv |-> kv]

MapSet(kv, k, v) == [x \in (DOMAIN kv) \cup {k} |-> IF x = k THEN v ELSE kv[x]]

NewRpcMessage ==
    [Header |-> <<magicNumber>> \o Zeros(11),
     ServicePath |-> Val(<<>>),
     ServiceMethod |-> Val(<<>>),
     Metadata |-> NilMap,
     Payload |-> Val(<<>>),
     data |-> [arr |-> <<>>, len |-> 0]]

\* the four Body fields of a Message, as values
Body(msg) ==
    [ServicePath |-> FieldBytes(msg, msg.ServicePath),
     ServiceMethod |-> FieldBytes(msg, msg.ServiceMethod),
     Metadata |-> msg.Metadata.kv,
     Payload |-> FieldBytes(msg, msg.Payload)]

\* The fields that alias msg.data keep the old array when data is replaced by
\* a new one; nothing writes to the old array afterwards.
Detach(msg) ==
    [msg EXCEPT !.ServicePath = Val(FieldBytes(msg, msg.ServicePath)),
                !.ServiceMethod = Val(FieldBytes(msg, msg.ServiceMethod)),
                !.Payload = Val(FieldBytes(msg, msg.Payload))]

----------------------------------------------------------------------------
(* Compressors: the Compressor interface and the registered implementations *)

\* RawDataCompressor
RawZip(p) == [data |-> p, err |-> "nil"]

RawUnzip(p) == [data |-> p, err |-> "nil"]

\* GzipCompressor: a two-byte magic, the data, a one-byte length trailer
GzipZip(p) == [data |-> <<31, 139>> \o p \o <<Len(p) % 256>>, err |-> "nil"]

GzipUnzip(b) ==
    IF Len(b) >= 3 /\ b[1] = 31 /\ b[2] = 139 /\ b[Len(b)] = (Len(b) - 3) % 256
    THEN [data |-> SubSeq(b, 3, Len(b) - 1), err |-> "nil"]
    ELSE [data |-> <<>>, err |-> "ErrUnzip"]

\* compressor.Zip(p) for a registered compressor c; "Failing" is a customized
\* compressor whose Zip and Unzip return an error
Zip(c, p) ==
    CASE c = "Raw" -> RawZip(p)
      [] c = "Gzip" -> GzipZip(p)
      [] OTHER -> [data |-> <<>>, err |-> "ErrZip"]

Unzip(c, b) ==
    CASE c = "Raw" -> RawUnzip(b)
      [] c = "Gzip" -> GzipUnzip(b)
      [] OTHER -> [data |-> <<>>, err |-> "ErrUnzip"]

\* var Compressors = map[CompressType]Compressor{None: Raw, Gzip: Gzip};
\* "nil" is what a lookup of an absent code yields
DefaultCompressors ==
    [ct \in 0..7 |-> IF ct = None THEN "Raw" ELSE IF ct = Gzip THEN "Gzip" ELSE "nil"]

----------------------------------------------------------------------------
(* Encoding *)

\* encodeMetadata(m, bb): one TLV pair per key, in the order the map range
\* visits the keys (order); nothing for a nil or empty map
encodeMetadata(md, order) ==
    Concat([i \in 1..Len(order) |->
        PutUint32(Len(order[i])) \o order[i]
            \o PutUint32(Len(md.kv[order[i]])) \o md.kv[order[i]]])

\* Compressed without "payload = m.Payload" after a failed Zip
CompressedKeepsFailedZip(msg) ==
    LET p == FieldBytes(msg, msg.Payload)
        c == Compressors[CompressType(msg.Header)]
    IN  IF CompressType(msg.Header) = None THEN [payload |-> p, err |-> "nil"]
        ELSE IF c = "nil" THEN [payload |-> p, err |-> "ErrUnsupportedCompressor"]
        ELSE [payload |-> Zip(c, p).data, err |-> Zip(c, p).err]

\* Compressed without the check for a missing compressor
CompressedIgnoresMissing(msg) ==
    LET p == FieldBytes(msg, msg.Payload)
        c == Compressors[CompressType(msg.Header)]
    IN  IF CompressType(msg.Header) = None \/ c = "nil" THEN [payload |-> p, err |-> "nil"]
        ELSE IF Zip(c, p).err # "nil" THEN [payload |-> p, err |-> Zip(c, p).err]
        ELSE [payload |-> Zip(c, p).data, err |-> "nil"]

\* The payload Encode and WriteTo put on the wire and the error of the
\* attempt to compress it: [payload, err], err one of "nil",
\* "ErrUnsupportedCompressor" (no compressor registered) or Zip's error.
Compressed(msg) ==
    LET p == FieldBytes(msg, msg.Payload)
        c == Compressors[CompressType(msg.Header)]
    IN  IF CompressType(msg.Header) = None THEN [payload |-> p, err |-> "nil"]
        ELSE IF c = "nil" THEN [payload |-> p, err |-> "ErrUnsupportedCompressor"]
        ELSE IF Zip(c, p).err # "nil" THEN [payload |-> p, err |-> Zip(c, p).err]
        ELSE [payload |-> Zip(c, p).data, err |-> "nil"]

TotalLNoPayloadPrefix(spL, smL, metaL, payloadL) ==
    (4 + spL) + (4 + smL) + (4 + metaL) + payloadL

\* totalL := (4 + spL) + (4 + smL) + (4 + len(meta)) + (4 + len(payload))
TotalL(spL, smL, metaL, payloadL) == (4 + spL) + (4 + smL) + (4 + metaL) + (4 + payloadL)

\* Message.EncodeSlicePointer: [data, m].  data is the frame; m is the
\* Message afterwards (the receiver is a copy, but its Header is a pointer:
\* SetCompressType(None) on the failure path changes the caller's header).
\* stale is what the pooled buffer holds when bufferPool.Get hands it out.
EncodeSlicePointer(msg, order, stale) ==
    LET meta == encodeMetadata(msg.Metadata, order)
        sp == FieldBytes(msg, msg.ServicePath)
        sm == FieldBytes(msg, msg.ServiceMethod)
        spL == Len(sp)
        smL == Len(sm)
        z == Compressed(msg)
        hdr == IF z.err # "nil" THEN SetCompressType(msg.Header, None) ELSE msg.Header
        payload == z.payload
        totalL == TotalL(spL, smL, Len(meta), Len(payload))
        metaStart == 12 + 4 + (4 + spL) + (4 + smL)
        payLoadStart == metaStart + (4 + Len(meta))
        l == 12 + 4 + totalL
        d0 == [i \in 1..l |-> stale]
        d1 == CopyAt(d0, 0, l, hdr)
        d2 == CopyAt(d1, 12, 16, PutUint32(totalL))
        d3 == CopyAt(d2, 16, 20, PutUint32(spL))
        d4 == CopyAt(d3, 20, 20 + spL, sp)
        d5 == CopyAt(d4, 20 + spL, 24 + spL, PutUint32(smL))
        d6 == CopyAt(d5, 24 + spL, metaStart, sm)
        d7 == CopyAt(d6, metaStart, metaStart + 4, PutUint32(Len(meta)))
        d8 == CopyAt(d7, metaStart + 4, l, meta)
        d9 == CopyAt(d8, payLoadStart, payLoadStart + 4, PutUint32(Len(payload)))
        d10 == CopyAt(d9, payLoadStart + 4, l, payload)
    IN  [data |-> d10, m |-> [msg EXCEPT !.Header = hdr]]

\* WriteToResult writing the metadata without its length
WriteToResultNoMetaLen(msg, order, failAt) ==
    LET meta == encodeMetadata(msg.Metadata, order)
        sp == FieldBytes(msg, msg.ServicePath)
        sm == FieldBytes(msg, msg.ServiceMethod)
        z == Compressed(msg)
        totalL == TotalL(Len(sp), Len(sm), Len(meta), Len(z.payload))
        out == msg.Header \o PutUint32(totalL) \o PutUint32(Len(sp)) \o sp
                 \o PutUint32(Len(sm)) \o sm \o meta
                 \o PutUint32(Len(z.payload)) \o z.payload
    IN  IF failAt # 0 \/ z.err # "nil"
        THEN [out |-> <<>>, n |-> 0, err |-> "ErrWrite"]
        ELSE [out |-> out, n |-> Len(z.payload), err |-> "nil"]

\* Message.WriteTo(w): [out, n, err].  out is what reached the writer, n and
\* err are the return values.  The writer fails its failAt-th Write call
\* (0: none fails); a failed Write writes nothing.
WriteToResult(msg, order, failAt) ==
    LET meta == encodeMetadata(msg.Metadata, order)
        sp == FieldBytes(msg, msg.ServicePath)
        sm == FieldBytes(msg, msg.ServiceMethod)
        z == Compressed(msg)
        totalL == TotalL(Len(sp), Len(sm), Len(meta), Len(z.payload))
        chunks == << msg.Header, PutUint32(totalL), PutUint32(Len(sp)), sp,
                     PutUint32(Len(sm)), sm, PutUint32(Len(meta)), meta,
                     PutUint32(Len(z.payload)), z.payload >>
        Written(k) == Concat(SubSeq(chunks, 1, k))
    IN  IF failAt = 1 THEN [out |-> <<>>, n |-> 0, err |-> "ErrWrite"]
        ELSE IF z.err # "nil" THEN [out |-> Written(1), n |-> 12, err |-> z.err]
        ELSE IF failAt \in 2..9
             THEN [out |-> Written(failAt - 1), n |-> 12, err |-> "ErrWrite"]
        ELSE IF failAt = 10 THEN [out |-> Written(9), n |-> 0, err |-> "ErrWrite"]
        ELSE [out |-> Written(10), n |-> Len(z.payload), err |-> "nil"]

----------------------------------------------------------------------------
(* Decoding *)

\* io.ReadFull(r, buf) with len(buf) = n: [n, err, bytes, r].  bytes are the
\* bytes stored into buf (a short read stores what there is).
ReadFull(r, n) ==
    LET avail == Len(r.buf) - r.pos
        k == Min(n, avail)
    IN  [n |-> k,
         err |-> IF k = n THEN "nil" ELSE IF k = 0 THEN "EOF" ELSE "ErrUnexpectedEOF",
         bytes |-> SubSeq(r.buf, r.pos + 1, r.pos + k),
         r |-> [r EXCEPT !.pos = @ + k]]

\* a slice expression s[lo:hi] on a slice of capacity cap, lo and hi
\* uint32: in range iff 0 <= lo <= hi <= cap (the model's cap is < 2^16)
SliceOK(lo, hi, cap) == U32Le(lo, hi) /\ hi.hi = 0 /\ hi.lo <= cap

\* if n+sl > l-4 (the key's check), in uint32 arithmetic
KeyMissingOffByOne(l, ke) == U32Le(U32Sub(l, U32Of(4)), ke)

KeyMissing(l, ke) == U32Lt(U32Sub(l, U32Of(4)), ke)

\* if n+sl > l (the value's check)
ValueMissing(l, ve) == U32Lt(l, ve)

NoMeta == [entered |-> FALSE, fault |-> FALSE, oob |-> FALSE, l |-> 0, cap |-> 0]

\* decodeMetadata(l, data): [m, err, oob].  arr is data's underlying array
\* (its capacity is Len(arr); its length is l).  err is "nil",
\* "ErrMetaKVMissing" or "panic" (a slice expression out of range); oob says
\* that a byte at an index >= l of data was read.
RECURSIVE decodeMetadataLoop(_, _, _, _, _)
decodeMetadataLoop(l, arr, n, mp, oob) ==
    IF ~U32Lt(n, l) THEN [m |-> mp, err |-> "nil", oob |-> oob]
    ELSE
    LET kl == U32Add(n, U32Of(4))
    IN  IF ~SliceOK(n, kl, Len(arr)) THEN [m |-> mp, err |-> "panic", oob |-> oob]
        ELSE
        LET sl == Uint32(SubSeq(arr, n.lo + 1, n.lo + 4))
            oob1 == oob \/ U32Lt(l, kl)
            ke == U32Add(kl, sl)
        IN  IF KeyMissing(l, ke)
            THEN [m |-> mp, err |-> "ErrMetaKVMissing", oob |-> oob1]
            ELSE IF ~SliceOK(kl, ke, Len(arr))
            THEN [m |-> mp, err |-> "panic", oob |-> oob1]
            ELSE
            LET k == SubSeq(arr, kl.lo + 1, ke.lo)
                oob2 == oob1 \/ (U32Lt(kl, ke) /\ U32Lt(l, ke))
                vl == U32Add(ke, U32Of(4))
            IN  IF ~SliceOK(ke, vl, Len(arr))
                THEN [m |-> mp, err |-> "panic", oob |-> oob2]
                ELSE
                LET sl2 == Uint32(SubSeq(arr, ke.lo + 1, ke.lo + 4))
                    oob3 == oob2 \/ U32Lt(l, vl)
                    ve == U32Add(vl, sl2)
                IN  IF ValueMissing(l, ve)
                    THEN [m |-> mp, err |-> "ErrMetaKVMissing", oob |-> oob3]
                    ELSE IF ~SliceOK(vl, ve, Len(arr))
                    THEN [m |-> mp, err |-> "panic", oob |-> oob3]
                    ELSE decodeMetadataLoop(l, arr, ve,
                            MapSet(mp, k, SubSeq(arr, vl.lo + 1, ve.lo)), oob3)

decodeMetadata(l, arr) == decodeMetadataLoop(l, arr, U32Of(0), << >>, FALSE)

\* what Decode hands back: the Message, the reader, the error ("nil" on
\* success, "panic" for a run-time fault) and what the metadata step did
Returned(msg, r, err, meta) == [m |-> msg, r |-> r, err |-> err, meta |-> meta]

\* ParsePayload that hands the payload over as it is when no compressor is
\* registered or Unzip fails
ParsePayloadLenient(msg, r, n, meta) ==
    LET cap == Len(msg.data.arr)
    IN  IF n + 4 > cap \/ n + 4 > msg.data.len THEN Returned(msg, r, "panic", meta)
        ELSE
        LET m1 == [msg EXCEPT !.Payload = View(n + 4, msg.data.len - (n + 4))]
            ct == CompressType(m1.Header)
            c == Compressors[ct]
        IN  IF ct = None \/ c = "nil" THEN Returned(m1, r, "nil", meta)
            ELSE LET u == Unzip(c, FieldBytes(m1, m1.Payload))
                 IN  IF u.err # "nil" THEN Returned(m1, r, "nil", meta)
                     ELSE Returned([m1 EXCEPT !.Payload = Val(u.data)], r, "nil", meta)

\* Decode, "parse payload" and the decompression that follows; n is the
\* cursor into data
ParsePayload(msg, r, n, meta) ==
    LET cap == Len(msg.data.arr)
    IN  IF n + 4 > cap \/ n + 4 > msg.data.len THEN Returned(msg, r, "panic", meta)
        ELSE
        LET m1 == [msg EXCEPT !.Payload = View(n + 4, msg.data.len - (n + 4))]
            ct == CompressType(m1.Header)
            c == Compressors[ct]
        IN  IF ct = None THEN Returned(m1, r, "nil", meta)
            ELSE IF c = "nil" THEN Returned(m1, r, "ErrUnsupportedCompressor", meta)
            ELSE LET u == Unzip(c, FieldBytes(m1, m1.Payload))
                 IN  Returned([m1 EXCEPT !.Payload = Val(u.data)], r, u.err, meta)

\* Decode, "parse meta"
ParseMeta(msg, r, n) ==
    LET cap == Len(msg.data.arr)
    IN  IF n + 4 > cap THEN Returned(msg, r, "panic", NoMeta)
        ELSE
        LET l == Uint32(SubSeq(msg.data.arr, n + 1, n + 4))
            n1 == n + 4
            nEnd == n1 + IntOf(l)
        IN  IF l = U32Of(0) THEN ParsePayload(msg, r, nEnd, NoMeta)
            ELSE IF nEnd > cap THEN Returned(msg, r, "panic", NoMeta)
            ELSE
            LET md == decodeMetadata(l, SubSeq(msg.data.arr, n1 + 1, cap))
                meta == [entered |-> TRUE, fault |-> md.err = "panic",
                         oob |-> md.oob, l |-> l.lo, cap |-> cap - n1]
            IN  IF md.err = "panic" THEN Returned(msg, r, "panic", meta)
                ELSE IF md.err # "nil"
                THEN Returned([msg EXCEPT !.Metadata = MapOf(md.m)], r, md.err, meta)
                ELSE ParsePayload([msg EXCEPT !.Metadata = MapOf(md.m)], r, nEnd, meta)

\* Decode, "parse serviceMethod"
ParseMethod(msg, r, n) ==
    LET cap == Len(msg.data.arr)
    IN  IF n + 4 > cap THEN Returned(msg, r, "panic", NoMeta)
        ELSE
        LET l == Uint32(SubSeq(msg.data.arr, n + 1, n + 4))
            n1 == n + 4
            nEnd == n1 + IntOf(l)
        IN  IF nEnd > cap THEN Returned(msg, r, "panic", NoMeta)
            ELSE ParseMeta([msg EXCEPT !.ServiceMethod = View(n1, nEnd - n1)], r, nEnd)

\* Decode, "parse servicePath"
ParsePath(msg, r) ==
    LET cap == Len(msg.data.arr)
    IN  IF 4 > cap THEN Returned(msg, r, "panic", NoMeta)
        ELSE
        LET l == Uint32(SubSeq(msg.data.arr, 1, 4))
            nEnd == 4 + IntOf(l)
        IN  IF nEnd > cap THEN Returned(msg, r, "panic", NoMeta)
            ELSE ParseMethod([msg EXCEPT !.ServicePath = View(4, nEnd - 4)], r, nEnd)

\* Decode from "totalL := int(l)" on: data is reused when its capacity is
\* enough and made anew (zeroed) otherwise, then filled by one ReadFull
ReadBody(msg, r, totalL) ==
    LET m1 == IF Len(msg.data.arr) >= totalL
              THEN [msg EXCEPT !.data.len = totalL]
              ELSE [Detach(msg) EXCEPT !.data = [arr |-> Zeros(totalL), len |-> totalL]]
        b == ReadFull(r, totalL)
        m2 == [m1 EXCEPT !.data.arr = CopyAt(@, 0, totalL, b.bytes)]
    IN  IF b.err # "nil" THEN Returned(m2, b.r, b.err, NoMeta)
        ELSE ParsePath(m2, b.r)

TooLongInclusive(l) == MaxRpcMessageLength > 0 /\ IntOf(l) >= MaxRpcMessageLength

\* MaxRpcMessageLength > 0 && int(l) > MaxRpcMessageLength
TooLong(l) == MaxRpcMessageLength > 0 /\ IntOf(l) > MaxRpcMessageLength

\* Message.Decode(r)
DecodeResult(msg, r) ==
    LET h0 == ReadFull(r, 1)
        m1 == [msg EXCEPT !.Header = CopyAt(@, 0, 1, h0.bytes)]
    IN  IF h0.err # "nil" THEN Returned(m1, h0.r, h0.err, NoMeta)
        ELSE IF ~CheckMagicNumber(m1.Header)
        THEN Returned(m1, h0.r, "wrong magic number", NoMeta)
        ELSE
        LET h1 == ReadFull(h0.r, 11)
            m2 == [m1 EXCEPT !.Header = CopyAt(@, 1, 12, h1.bytes)]
        IN  IF h1.err # "nil" THEN Returned(m2, h1.r, h1.err, NoMeta)
            ELSE
            LET ld == ReadFull(h1.r, 4)
            IN  IF ld.err # "nil" THEN Returned(m2, ld.r, ld.err, NoMeta)
                ELSE IF TooLong(Uint32(ld.bytes))
                THEN Returned(m2, ld.r, "ErrRpcMessageTooLong", NoMeta)
                ELSE ReadBody(m2, ld.r, IntOf(Uint32(ld.bytes)))

\* Message.ParseToBodyLen(r): [m, r, n, err]
ParseToBodyLenResult(msg, r) ==
    LET h0 == ReadFull(r, 1)
        m1 == [msg EXCEPT !.Header = CopyAt(@, 0, 1, h0.bytes)]
    IN  IF h0.err # "nil" THEN [m |-> m1, r |-> h0.r, n |-> 0, err |-> h0.err]
        ELSE IF ~CheckMagicNumber(m1.Header)
        THEN [m |-> m1, r |-> h0.r, n |-> 0, err |-> "wrong magic number"]
        ELSE
        LET h1 == ReadFull(h0.r, 11)
            m2 == [m1 EXCEPT !.Header = CopyAt(@, 1, 12, h1.bytes)]
        IN  IF h1.err # "nil" THEN [m |-> m2, r |-> h1.r, n |-> 0, err |-> h1.err]
            ELSE
            LET ld == ReadFull(h1.r, 4)
            IN  IF ld.err # "nil" THEN [m |-> m2, r |-> ld.r, n |-> 0, err |-> ld.err]
                ELSE IF TooLong(Uint32(ld.bytes))
                THEN [m |-> m2, r |-> ld.r, n |-> 0, err |-> "ErrRpcMessageTooLong"]
                ELSE [m |-> m2, r |-> ld.r, n |-> IntOf(Uint32(ld.bytes)), err |-> "nil"]

\* Message.Reset()
ResetResult(msg) ==
    [msg EXCEPT !.Header = resetHeader(@),
                !.Metadata = NilMap,
                !.Payload = Val(<<>>),
                !.data.len = 0,
                !.ServicePath = Val(<<>>),
                !.ServiceMethod = Val(<<>>)]

----------------------------------------------------------------------------
(* Inputs *)

\* "" and "Echo"
Paths == { <<>>, <<69, 99, 104, 111>> }

\* "" and "Call"
Methods == { <<>>, <<67, 97, 108, 108>> }

\* "" and "k"
MetaKeys == { <<>>, <<107>> }

\* "" and "v"
MetaVals == { <<>>, <<118>> }

\* nil, the empty map and every map from keys among MetaKeys to MetaVals
Metadatas ==
    {NilMap} \cup {MapOf(f) : f \in UNION {[K -> MetaVals] : K \in SUBSET MetaKeys}}

PayloadBytes == {1, 2}

Payloads == UNION {[1..n -> PayloadBytes] : n \in 0..MaxPayloadLen}

\* the compression codes the sender sets: None, Gzip, and one that no
\* compressor is registered for
CompressArgs == {None, Gzip, 2}

\* the compressors registered for code Gzip: none, GzipCompressor, a
\* customized one that fails
GzipSlots == {"nil", "Gzip", "Failing"}

\* what a stream's first byte is replaced by to spoil the magic number
BadMagics == {9}

\* which Write call of the writer fails: none, the header's, the total
\* length's, the payload's
FailAts == {0, 1, 2, 10}

Messages ==
    {[NewRpcMessage EXCEPT !.ServicePath = Val(sp), !.ServiceMethod = Val(sm),
                           !.Metadata = md, !.Payload = Val(p)] :
        sp \in Paths, sm \in Methods, md \in Metadatas, p \in Payloads}

\* wire: bytes, the bytes produced; by, the operation that produced them;
\* pre, the Message before that operation; c, what the lookup
\* Compressors[pre.CompressType()] yielded then; failAt, the writer's failing
\* Write call; err and n, what the operation returned
NoWire ==
    [bytes |-> <<>>, by |-> "none", pre |-> NewRpcMessage, c |-> "Raw",
     failAt |-> 0, err |-> "nil", n |-> 0]

NoRet == [op |-> "none", err |-> "nil", n |-> 0, meta |-> NoMeta, prev |-> "none"]

NewReader(b) == [buf |-> b, pos |-> 0]

\* the stream b with its first byte replaced by x
Spoil(b, x) == IF b = <<>> THEN <<x>> ELSE <<x>> \o Tail(b)

----------------------------------------------------------------------------
(* Sessions: state *)

\* requests a connection delivers to one Session
MaxReqs == 2
\* the largest respQueueSize a Session is created with
QueueSize == 1
\* the largest attemptTimes the write loop is started with
MaxAttempts == 2
\* Close calls made on one Session from outside its two loops
MaxCloses == 1

Sessions == {"s1", "s2"}

Reqs == 1..MaxReqs

\* a Context: the Session whose read loop allocated it and the number of the
\* request it carries
Ctx(s, i) == [sess |-> s, req |-> i]

NoCtx == [sess |-> "", req |-> 0]

\* baseSession: closed, the channel s.closed is closed; closeOnce, the
\* sync.Once has run; respQueue, the buffered channel's content; sendq, the
\* requests whose Send is parked on the full channel, in arrival order.
\* Recorded beside them: fired, the executions of close(s.closed); faulted, a
\* close of the closed channel; extCloses, the calls of Close from outside
\* the loops; enq, the Contexts in the order the channel accepted them.
NewSession ==
    [closed |-> FALSE, closeOnce |-> FALSE, respQueue |-> <<>>, sendq |-> <<>>,
     fired |-> 0, faulted |-> FALSE, extCloses |-> 0,
     enq |-> <<>>]

\* a call handleReq(router, reqEntry).  pc: "none" not decoded yet,
\* "handle" in router.handle, "send" at Send's
\* select, "parked" suspended in it, "sent" Send returned true, "dropped"
\* Send returned false.  rsp: the handler set a response.  scope: the
\* Context's cancellation scope ("background", "live" or "cancelled").
\* by: the case of the select that resolved Send.  pre: what held when Send
\* was invoked.  deqs: the write loop's dequeues when Send parked.  oneway:
\* the request's Header has the oneway flag set.  puts: the times
\* packResponse has put the request's Context into the ctxPool.
NoPre == [closed |-> FALSE, done |-> FALSE, room |-> FALSE]

NewTask ==
    [pc |-> "none", rsp |-> FALSE, scope |-> "background", by |-> "",
     pre |-> NoPre, deqs |-> 0, oneway |-> FALSE, puts |-> 0]

\* readInbound: pc is "check" (the select at the top of the loop), "unpack"
\* (in packer.Unpack), "wait" (in handleReq, synchronous dispatch),
\* "closing" (after the loop, before s.Close()) or "done"; n, the requests
\* taken from the connection
NewReadLoop == [pc |-> "check", n |-> 0]

\* writeOutbound: pc is "select", "write" (in attemptConnWrite, before the
\* call of conn.Write of attempt i), "closing" (after the loop, before
\* s.Close()) or "done"; ctx, the Context dequeued; err, the last Write's
\* result.  Recorded beside them: calls, the results of the Write calls of
\* this attemptConnWrite; deqs, the dequeues so far; failed, the loop was
\* left on an error, with deqs and the frames written at that moment;
\* armed, the calls of SetWriteDeadline.
NewWriteLoop ==
    [pc |-> "select", ctx |-> NoCtx, i |-> 0, err |-> "nil", calls |-> <<>>,
     returned |-> FALSE, deqs |-> 0, failed |-> FALSE, failDeqs |-> 0,
     failOut |-> 0, armed |-> 0]

\* the connection: open until the Engine closes it; out, the frames written;
\* readFails, the peer is gone and every read from now on returns an error
NewConn == [open |-> TRUE, out |-> <<>>, readFails |-> FALSE]

\* sessionOption and the Engine's settings for the Session's loops
DefaultCfg ==
    [asyncRouter |-> FALSE, respQueueSize |-> 1, attemptTimes |-> 1,
     writeTimeout |-> 0]

\* no Session has been created yet
NoSessions ==
    /\ cfg = [s \in Sessions |-> DefaultCfg]
    /\ sess = [s \in Sessions |-> NewSession]
    /\ tasks = [s \in Sessions |-> [i \in Reqs |-> NewTask]]
    /\ rl = [s \in Sessions |-> NewReadLoop]
    /\ wl = [s \in Sessions |-> NewWriteLoop]
    /\ conn = [s \in Sessions |-> NewConn]

----------------------------------------------------------------------------
(* Engine, routeContext and TypePools: state *)

\* connections the listener hands to one accept loop
MaxConns == 2

\* Accept calls that fail during one accept loop
MaxAcceptErrs == 2

\* handlers in a chain
MaxHandlers == 3

\* Puts and Gets on the TypePools
MaxPoolOps == 4

\* the Engine as New() returns it: no field but router, RouterGroup and
\* groups is set, so the channels are nil and the settings are zero.  A
\* channel is "nil", "open" (made, not closed) or "closed".  The rest is the
\* acceptLoop call: pc, where it is; ret, what it returned; conns, the
\* connections Accept has returned; spawned, the Sessions of the handleConn
\* goroutines started, in order; crashed, the process ended by a panic of a
\* goroutine nothing recovers; last, the result of the last Accept; ws, the
\* Sessions that ServeWS serves (wsSession) instead of handleConn
NewEngine ==
    [accepting |-> "nil", stopped |-> "nil",
     socketReadBufferSize |-> 0, socketWriteBufferSize |-> 0,
     socketSendDelay |-> FALSE, writeTimeout |-> 0, respQueueSize |-> 0,
     writeAttemptTimes |-> 0, asyncRouter |-> FALSE,
     pc |-> "idle", ret |-> "none", conns |-> 0, spawned |-> <<>>,
     crashed |-> FALSE, last |-> "none", retries |-> 0, ws |-> {}]

\* Contexts a Session allocates from its ctxPool
MaxAllocs == 2

\* a routeContext as NewContext() returns it: rawCtx is context.Background()
\* and every other field zero (reqMsg and rspMsg: 0 for nil, else the
\* number of the request; storage: the set of keys stored; handlers: what
\* each handler of the chain does).  Beside the fields: at, where the
\* object is ("new": not made yet, "allocated" by a Session, "pooled" in
\* its ctxPool); by, the Session that allocated it; touched, whether
\* anything used it since; allocs, the allocations so far; ran, whether the
\* chain was started, and from, the cursor when it was; stack, the running Next() and handler calls,
\* innermost last; invoked, the handlers called for this request, by index;
\* quiet, the handlers that returned without having called Next, each with
\* the number of handlers invoked until then
NewContext ==
    [rawCtx |-> "background", storage |-> {}, handlers |-> <<>>, index |-> 0,
     reqMsg |-> 0, rspMsg |-> 0, session |-> "nil",
     at |-> "new", by |-> "nil", touched |-> FALSE, allocs |-> 0, ran |-> FALSE,
     from |-> 0, stack |-> <<>>, invoked |-> <<>>, quiet |-> {}]

\* the types the TypePools are used with: a non-pointer and a pointer type
Types == {"int", "*Args"}

\* the values put into the pools: the int 42 and a *Args, which implements
\* Reset
Items == {"42", "args"}

\* no operation on the pools yet
NoPoolOp == [op |-> "none", t |-> "int", x |-> "42", use |-> FALSE]

\* a *sync.Pool of the pools map: made by Init or missing from the map
\* (nil); items, how many times it holds each value
NilPool == [made |-> FALSE, items |-> [x \in Items |-> 0]]

\* package pool at program start: UsePool is false, ReflectTypePools has an
\* empty pools map.  got: what the last Get returned; dirty: the *Args
\* holds data of its last user; fault: a nil *sync.Pool was used (the
\* program panicked); ops: the operations so far; last: the last operation,
\* with UsePool when it ran; before: the pools before the last Put; prior:
\* the operation before the last
NewPools ==
    [UsePool |-> FALSE, pools |-> [t \in Types |-> NilPool],
     got |-> [fresh |-> FALSE, type |-> "", x |-> ""], dirty |-> FALSE,
     fault |-> FALSE, ops |-> 0, last |-> NoPoolOp, prior |-> NoPoolOp,
     before |-> [t \in Types |-> NilPool]]

\* the names services are registered under, and the method names
ServiceNames == {"Arith", "Echo"}

MethodNames == {"Mul"}

\* calls of a ServiceManager in one run
MaxSvcOps == 4

\* no entry of the serviceMap for a name, and what no call has returned
NilService == [present |-> FALSE, method |-> {}]

NoSvcRet == [call |-> "none", name |-> "", found |-> FALSE, err |-> "nil"]

\* NewServiceManager(): an empty serviceMap (per name: whether the map has
\* a *Service for it, and the names of its methods).  Beside it: ret, what
\* the last call returned; unregistered, whether UnregisterAll has returned
\* with no registration since; names, the names it returned; ops, the calls
NewServiceManager ==
    [serviceMap |-> [n \in ServiceNames |-> NilService], ret |-> NoSvcRet,
     unregistered |-> FALSE, names |-> {}, ops |-> 0]

\* the goroutines that use a Context's store, the Context c and its copy d
Threads == {"g1", "g2"}

Contexts == {"c", "d"}

\* keys: a string and one that is not a string
StoreKeys == {"user", "#7"}

IsString(key) == key # "#7"

\* store operations in one run
MaxStoreOps == 3

\* a context.Context a routeContext wraps: its cancellation state and the
\* keys it holds values for
Background == [scope |-> "background", vals |-> {}]

\* a routeContext's state here: made, it exists; mu, the goroutine holding
\* its mutex or "free"; storage, 0 for nil or the number of its map; rawCtx
NilRouteContext == [made |-> FALSE, mu |-> "free", storage |-> 0, rawCtx |-> Background]

\* a goroutine: pc "idle", "locked" (in a store operation, past c.mu.Lock())
\* or "accessed" (past its map access, before the deferred Unlock); op, x,
\* key: the operation, its Context and key; hit, the key was in the map;
\* res, what Value returned ("stored", "raw": the value rawCtx holds, or
\* "nil"); raw0, the Context's rawCtx when the operation began, and kept,
\* whether it was the same when it returned; fin, an operation has returned
IdleThread ==
    [pc |-> "idle", op |-> "none", x |-> "c", key |-> "user", hit |-> FALSE,
     res |-> "nil", raw0 |-> Background, kept |-> TRUE, fin |-> FALSE]

\* c := NewContext(): rawCtx is context.Background(), storage nil; no copy
\* yet; maps, the keys each map made so far holds; n, the maps made
NewStore ==
    [ctxs |-> [x \in Contexts |-> [NilRouteContext EXCEPT !.made = (x = "c")]],
     maps |-> <<>>, th |-> [g \in Threads |-> IdleThread], ops |-> 0]

NoServices == svc = NewServiceManager /\ stores = NewStore

\* no Engine is serving, no routeContext is in use, the pools are untouched
NoEngine ==
    /\ engine = NewEngine
    /\ rctx = NewContext
    /\ pools = NewPools
    /\ NoServices

----------------------------------------------------------------------------
(* Operations *)

\* m.SetCompressType(ct) on the sender's Message, before it is encoded
SenderSetCompressType(ct) ==
    /\ wire.by = "none"
    /\ m' = [m EXCEPT !.Header = SetCompressType(@, ct)]
    /\ UNCHANGED <<dm, Compressors, MaxRpcMessageLength, wire, rd, ret, steps>>

\* Compressors[Gzip] = c, or delete(Compressors, Gzip)
RegisterCompressor(c) ==
    /\ steps = 0
    /\ Compressors' = [Compressors EXCEPT ![Gzip] = c]
    /\ UNCHANGED <<m, dm, MaxRpcMessageLength, wire, rd, ret, steps>>

\* MaxRpcMessageLength = L
SetMaxRpcMessageLength(L) ==
    /\ steps = 0
    /\ MaxRpcMessageLength' = L
    /\ UNCHANGED <<m, dm, Compressors, wire, rd, ret, steps>>

\* data := m.Encode()
Encode ==
    /\ wire.by = "none"
    /\ \E order \in Orders(DOMAIN m.Metadata.kv), stale \in {0, 255} :
        LET e == EncodeSlicePointer(m, order, stale)
        IN  /\ m' = e.m
            /\ wire' = [bytes |-> e.data, by |-> "Encode", pre |-> m,
                        c |-> Compressors[CompressType(m.Header)],
                        failAt |-> 0, err |-> "nil", n |-> Len(e.data)]
            /\ ret' = [op |-> "Encode", err |-> "nil", n |-> Len(e.data),
                       meta |-> NoMeta, prev |-> ret.op]
    /\ UNCHANGED <<dm, Compressors, MaxRpcMessageLength, rd, steps>>

\* n, err := m.WriteTo(w), w a writer that fails its failAt-th Write
WriteTo ==
    /\ wire.by = "none"
    /\ \E order \in Orders(DOMAIN m.Metadata.kv), failAt \in FailAts :
        LET w == WriteToResult(m, order, failAt)
        IN  /\ wire' = [bytes |-> w.out, by |-> "WriteTo", pre |-> m,
                        c |-> Compressors[CompressType(m.Header)],
                        failAt |-> failAt, err |-> w.err, n |-> w.n]
            /\ ret' = [op |-> "WriteTo", err |-> w.err, n |-> w.n,
                       meta |-> NoMeta, prev |-> ret.op]
    /\ UNCHANGED <<m, dm, Compressors, MaxRpcMessageLength, rd, steps>>

\* err := dm.Decode(r), r a reader over stream
Decode(stream) ==
    LET d == DecodeResult(dm, NewReader(stream))
    IN  /\ dm' = d.m
        /\ rd' = d.r
        /\ ret' = [op |-> "Decode", err |-> d.err, n |-> 0, meta |-> d.meta,
                   prev |-> ret.op]
        /\ steps' = steps + 1
        /\ UNCHANGED <<m, Compressors, MaxRpcMessageLength, wire>>

\* n, err := dm.ParseToBodyLen(r), r a reader over stream
ParseToBodyLen(stream) ==
    LET d == ParseToBodyLenResult(dm, NewReader(stream))
    IN  /\ dm' = d.m
        /\ rd' = d.r
        /\ ret' = [op |-> "ParseToBodyLen", err |-> d.err, n |-> d.n,
                   meta |-> NoMeta, prev |-> ret.op]
        /\ steps' = steps + 1
        /\ UNCHANGED <<m, Compressors, MaxRpcMessageLength, wire>>

\* dm.Reset()
Reset ==
    /\ dm' = ResetResult(dm)
    /\ ret' = [op |-> "Reset", err |-> "nil", n |-> 0, meta |-> NoMeta,
               prev |-> ret.op]
    /\ steps' = steps + 1
    /\ UNCHANGED <<m, Compressors, MaxRpcMessageLength, wire, rd>>

----------------------------------------------------------------------------
(* Spec: a Message is built, encoded once (Encode or WriteTo) and the frame *)
(* is read once into a fresh Message, as it was written or with a spoiled   *)
(* magic byte; the registry and the limit change at any time before.        *)

Init ==
    /\ NoSessions
    /\ NoEngine
    /\ m \in Messages
    /\ dm = NewRpcMessage
    /\ Compressors = DefaultCompressors
    /\ MaxRpcMessageLength = 0
    /\ wire = NoWire
    /\ rd = NewReader(<<>>)
    /\ ret = NoRet
    /\ steps = 0

\* the streams the receiver reads
Arriving == {wire.bytes} \cup {Spoil(wire.bytes, x) : x \in BadMagics}

Next ==
    /\ UNCHANGED <<sessVars, engVars>>
    /\ \/ \E ct \in CompressArgs : SenderSetCompressType(ct)
       \/ \E c \in GzipSlots : RegisterCompressor(c)
       \/ \E L \in {0, LimitL} : SetMaxRpcMessageLength(L)
       \/ Encode
       \/ WriteTo
       \/ wire.by # "none" /\ steps = 0 /\ \E s \in Arriving : Decode(s)
       \/ wire.by # "none" /\ steps = 0 /\ \E s \in Arriving : ParseToBodyLen(s)

Spec == Init /\ [][Next]_vars

----------------------------------------------------------------------------
(* Properties of Spec *)

\* the declared total length of a frame of at least 16 bytes
FrameTotal(b) == Uint32(SubSeq(b, 13, 16))

\* the header of a frame of at least 12 bytes
FrameHeader(b) == SubSeq(b, 1, 12)

\* the sum over the pairs of kv with keys in K of 4 + len(key) + 4 + len(value)
RECURSIVE PairsLen(_, _)
PairsLen(kv, K) ==
    IF K = {} THEN 0
    ELSE LET k == CHOOSE x \in K : TRUE
         IN  4 + Len(k) + 4 + Len(kv[k]) + PairsLen(kv, K \ {k})

\* (4+len(path)) + (4+len(method)) + (4+len(metadataBytes)) + (4+len(payload))
\* for the Message msg and the payload bytes p
ExpectedTotal(msg, p) ==
    (4 + Len(Body(msg).ServicePath)) + (4 + Len(Body(msg).ServiceMethod))
        + (4 + PairsLen(msg.Metadata.kv, DOMAIN msg.Metadata.kv)) + (4 + Len(p))

\* the compression of the Message that produced the wire failed: no
\* compressor was registered for its code, or Zip returned an error
CompressionFailed ==
    /\ CompressType(wire.pre.Header) # None
    /\ wire.c = "nil" \/ Zip(wire.c, Body(wire.pre).Payload).err # "nil"

\* the payload bytes a frame of wire.pre holds
PayloadAsWritten ==
    IF CompressType(wire.pre.Header) # None /\ ~CompressionFailed
    THEN Zip(wire.c, Body(wire.pre).Payload).data
    ELSE Body(wire.pre).Payload

\* path="Echo", method="Call", metadata={"k":"v"}, payload=[0x01,0x02]
ExampleBody ==
    [ServicePath |-> <<69, 99, 104, 111>>, ServiceMethod |-> <<67, 97, 108, 108>>,
     Metadata |-> [k \in {<<107>>} |-> <<118>>], Payload |-> <<1, 2>>]

\* the receiver has read, whole, a frame that Encode or a WriteTo without
\* error produced
ReadWholeFrame ==
    /\ wire.by \in {"Encode", "WriteTo"}
    /\ wire.err = "nil"
    /\ rd.buf = wire.bytes

\* C1: round trip.  Decoding the bytes Encode produced for a Message into
\* a fresh Message succeeds and yields the Message's servicePath,
\* serviceMethod, metadata (as a mapping) and payload, whenever the frame's
\* compression code is None or has the same working compressor (Raw, Gzip)
\* registered when encoding and when decoding, and the length limit admits
\* the frame.
C1_RoundTrip ==
    ( /\ ret.op = "Decode"
      /\ wire.by = "Encode"
      /\ rd.buf = wire.bytes
      /\ ~(MaxRpcMessageLength > 0 /\ Len(wire.bytes) - 16 > MaxRpcMessageLength)
      /\ \/ CompressType(FrameHeader(wire.bytes)) = None
         \/ /\ Compressors[CompressType(FrameHeader(wire.bytes))] = wire.c
            /\ wire.c \in {"Raw", "Gzip"} )
    => /\ ret.err = "nil"
       /\ Body(dm) = Body(wire.pre)
       /\ rd.pos = Len(rd.buf)

C1_Witness ==
    /\ ret.op = "Decode" /\ wire.by = "Encode" /\ rd.buf = wire.bytes
    /\ ret.err = "nil"
    /\ CompressType(dm.Header) = Gzip
    /\ DOMAIN dm.Metadata.kv = MetaKeys
    /\ dm.Metadata.kv[<<>>] = <<>>
    /\ Len(Body(dm).Payload) = MaxPayloadLen

\* C2 as stated: the uint32 Encode places at bytes 12..15 is (4+len(path))
\* + (4+len(method)) + (4+len(metadataBytes)) + (4+len(payload as written)),
\* metadataBytes being 4+len(key)+4+len(value) per pair; the output is 16
\* plus that value bytes long; for the example Message without compression
\* the value is 34.
C2_TotalLengthExample34 ==
    wire.by = "Encode" =>
        /\ Len(wire.bytes) = 16 + ExpectedTotal(wire.pre, PayloadAsWritten)
        /\ FrameTotal(wire.bytes) = U32Of(ExpectedTotal(wire.pre, PayloadAsWritten))
        /\ (Body(wire.pre) = ExampleBody /\ CompressType(wire.pre.Header) = None)
              => SubSeq(wire.bytes, 13, 16) = <<0, 0, 0, 34>>

\* C2, amended: the same, except that for the example Message the value is
\* (4+4) + (4+4) + (4+(4+1+4+1)) + (4+2) = 36 and the frame is 52 bytes long.
C2_TotalLength ==
    wire.by = "Encode" =>
        /\ Len(wire.bytes) = 16 + ExpectedTotal(wire.pre, PayloadAsWritten)
        /\ FrameTotal(wire.bytes) = U32Of(ExpectedTotal(wire.pre, PayloadAsWritten))
        /\ (Body(wire.pre) = ExampleBody /\ CompressType(wire.pre.Header) = None)
              => SubSeq(wire.bytes, 13, 16) = <<0, 0, 0, 36>>

C2_Witness ==
    /\ wire.by = "Encode"
    /\ Body(wire.pre) = ExampleBody
    /\ CompressType(wire.pre.Header) = None
    /\ SubSeq(wire.bytes, 13, 16) = <<0, 0, 0, 36>>
    /\ Len(wire.bytes) = 52

\* C3: Decode and ParseToBodyLen on a stream whose first byte is not the
\* magic number return the wrong-magic error having consumed exactly one
\* byte.
C3_BadMagic ==
    ( /\ ret.op \in {"Decode", "ParseToBodyLen"}
      /\ rd.buf # <<>>
      /\ rd.buf[1] # magicNumber )
    => /\ ret.err = "wrong magic number"
       /\ rd.pos = 1
       /\ SubSeq(dm.Header, 2, 12) = Zeros(11)
       /\ dm.data = NewRpcMessage.data

C3_Witness ==
    /\ ret.op = "Decode"
    /\ Len(rd.buf) > 16
    /\ rd.buf[1] # magicNumber
    /\ ret.err = "wrong magic number"
    /\ rd.pos = 1

\* C4: with MaxRpcMessageLength = L > 0, Decode (and ParseToBodyLen) of a
\* frame that declares a total length above L fails with
\* ErrRpcMessageTooLong after consuming exactly 16 bytes, the body unread;
\* a declared length of at most L, or any with L = 0, is not rejected so.
C4_LengthLimit ==
    ( /\ ret.op \in {"Decode", "ParseToBodyLen"}
      /\ Len(rd.buf) >= 16
      /\ rd.buf[1] = magicNumber )
    => IF MaxRpcMessageLength > 0 /\ IntOf(FrameTotal(rd.buf)) > MaxRpcMessageLength
       THEN /\ ret.err = "ErrRpcMessageTooLong"
            /\ rd.pos = 16
            /\ dm.data = NewRpcMessage.data
       ELSE ret.err # "ErrRpcMessageTooLong"

C4_Witness ==
    /\ ret.op = "Decode"
    /\ MaxRpcMessageLength = LimitL
    /\ Len(rd.buf) > 16
    /\ FrameTotal(rd.buf) = U32Of(LimitL + 1)
    /\ ret.err = "ErrRpcMessageTooLong"
    /\ rd.pos = 16

\* C7: Encode of a Message with a compression code other than None whose
\* compression fails still returns a frame: its header's compression bits
\* are None, its payload is the original payload and its total length is
\* computed from that payload.
C7_EncodeDowngrades ==
    (wire.by = "Encode" /\ CompressionFailed) =>
        LET p == Body(wire.pre).Payload
            n == Len(wire.bytes)
        IN  /\ n = 16 + ExpectedTotal(wire.pre, p)
            /\ CompressType(FrameHeader(wire.bytes)) = None
            /\ FrameTotal(wire.bytes) = U32Of(ExpectedTotal(wire.pre, p))
            /\ SubSeq(wire.bytes, n - Len(p) + 1, n) = p
            /\ SubSeq(wire.bytes, n - Len(p) - 3, n - Len(p)) = PutUint32(Len(p))

C7_Witness ==
    /\ wire.by = "Encode"
    /\ CompressType(wire.pre.Header) = Gzip
    /\ wire.c = "Failing"
    /\ Len(Body(wire.pre).Payload) = MaxPayloadLen
    /\ CompressType(FrameHeader(wire.bytes)) = None

\* C8: WriteTo of a Message with a compression code other than None whose
\* compression fails writes no total length and no body field (the stream
\* holds header bytes only) and leaves the Message, its compression code
\* included, as it was; it returns the compression error
\* (ErrUnsupportedCompressor, or Zip's) having written the 12 header bytes,
\* unless the writer refused the header (then it returns the writer's error).
C8_WriteToPropagates ==
    (wire.by = "WriteTo" /\ CompressionFailed) =>
        /\ wire.err # "nil"
        /\ Len(wire.bytes) <= 12
        /\ wire.bytes = SubSeq(wire.pre.Header, 1, Len(wire.bytes))
        /\ CompressType(m.Header) = CompressType(wire.pre.Header)
        /\ m = wire.pre
        /\ wire.failAt # 1 =>
            /\ wire.err = IF wire.c = "nil" THEN "ErrUnsupportedCompressor"
                          ELSE Zip(wire.c, Body(wire.pre).Payload).err
            /\ wire.bytes = wire.pre.Header

C8_Witness ==
    /\ wire.by = "WriteTo"
    /\ CompressType(wire.pre.Header) = 2
    /\ wire.c = "nil"
    /\ wire.failAt = 0
    /\ wire.err = "ErrUnsupportedCompressor"
    /\ Len(wire.bytes) = 12

\* C32: for a Message whose compressor (if any) is registered and does not
\* fail and a stream whose writes all succeed, the bytes WriteTo writes are
\* the bytes Encode returns for that Message (with the metadata pairs in
\* the order the map yields them), and the other way round.  (Both are
\* evaluated with the compressor registry as it was at the call.)
C32_WriteToIsEncode ==
    Compressors[CompressType(wire.pre.Header)] = wire.c =>
    /\ (wire.by = "WriteTo" /\ wire.failAt = 0 /\ ~CompressionFailed) =>
          /\ wire.err = "nil"
          /\ \E order \in Orders(DOMAIN wire.pre.Metadata.kv) :
                \A stale \in {0, 255} :
                    wire.bytes = EncodeSlicePointer(wire.pre, order, stale).data
    /\ (wire.by = "Encode" /\ ~CompressionFailed) =>
          \E order \in Orders(DOMAIN wire.pre.Metadata.kv) :
              wire.bytes = WriteToResult(wire.pre, order, 0).out

\* WriteTo has written a Message with two metadata pairs and a payload that
\* Gzip compressed
C32_Witness ==
    /\ wire.by = "WriteTo"
    /\ wire.failAt = 0
    /\ wire.err = "nil"
    /\ wire.c = "Gzip"
    /\ CompressType(wire.pre.Header) # None
    /\ Cardinality(DOMAIN wire.pre.Metadata.kv) = 2
    /\ Body(wire.pre).Payload # <<>>

\* C9: Decode of a well-formed frame whose compression code is not None
\* returns ErrUnsupportedCompressor when no compressor is registered for the
\* code, and Unzip's error when decompression fails.
C9_DecodeCompressionErrors ==
    ( /\ ret.op = "Decode"
      /\ ReadWholeFrame
      /\ ~(MaxRpcMessageLength > 0 /\ Len(wire.bytes) - 16 > MaxRpcMessageLength)
      /\ CompressType(FrameHeader(rd.buf)) # None )
    => LET c == Compressors[CompressType(FrameHeader(rd.buf))]
       IN  /\ c = "nil" => ret.err = "ErrUnsupportedCompressor"
           /\ (c # "nil" /\ Unzip(c, PayloadAsWritten).err # "nil")
                 => ret.err = Unzip(c, PayloadAsWritten).err

C9_Witness ==
    /\ ret.op = "Decode"
    /\ ReadWholeFrame
    /\ CompressType(FrameHeader(rd.buf)) = Gzip
    /\ Compressors[Gzip] = "nil"
    /\ ret.err = "ErrUnsupportedCompressor"

----------------------------------------------------------------------------
(* SpecMal: a fresh Message decodes one frame sent by a peer that does not  *)
(* follow the protocol: a frame of Encode with four bytes overwritten (a    *)
(* length field replaced, or bytes across fields), or a changed total       *)
(* length.                                                                  *)

\* the largest total length a peer declares in place of the true one
MaxDeclared == 20

\* the length of the longest frame of a Message of Messages without
\* compression
MaxFrameLen == 16 + (4 + 4) + (4 + 4) + (4 + 18) + (4 + MaxPayloadLen)

\* the Messages whose frames the peer corrupts
MalBase ==
    {msg \in Messages :
        /\ msg.ServiceMethod = Val(<<>>)
        /\ msg.Payload.val \in {<<>>, [i \in 1..MaxPayloadLen |-> i]}}

\* the four bytes written over a frame's bytes: small lengths, 65536,
\* 2^32 - 4 and 2^32 - 1
LenPatterns ==
    {PutUint32(v) : v \in {0, 1, 2, 3, 9}}
        \cup { <<0, 1, 0, 0>>, <<255, 255, 255, 252>>, <<255, 255, 255, 255>> }

\* the peer sends the frame of m with the total length replaced by t
PeerDeclares(t) ==
    /\ wire.by = "none"
    /\ \E order \in Orders(DOMAIN m.Metadata.kv) :
        wire' = [NoWire EXCEPT
                    !.bytes = CopyAt(EncodeSlicePointer(m, order, 0).data, 12, 16, PutUint32(t)),
                    !.by = "peer", !.pre = m]
    /\ UNCHANGED <<m, dm, Compressors, MaxRpcMessageLength, rd, ret, steps>>

\* the peer sends the frame of m with the four bytes from offset at on
\* replaced by pat
PeerOverwrites(at, pat) ==
    /\ wire.by = "none"
    /\ \E order \in Orders(DOMAIN m.Metadata.kv) :
        LET f == EncodeSlicePointer(m, order, 0).data
        IN  /\ at + 4 <= Len(f)
            /\ wire' = [NoWire EXCEPT !.bytes = CopyAt(f, at, at + 4, pat),
                                      !.by = "peer", !.pre = m]
    /\ UNCHANGED <<m, dm, Compressors, MaxRpcMessageLength, rd, ret, steps>>

InitMal ==
    /\ NoSessions
    /\ NoEngine
    /\ m \in MalBase
    /\ dm = NewRpcMessage
    /\ Compressors = DefaultCompressors
    /\ MaxRpcMessageLength = 0
    /\ wire = NoWire
    /\ rd = NewReader(<<>>)
    /\ ret = NoRet
    /\ steps = 0

NextMal ==
    /\ UNCHANGED <<sessVars, engVars>>
    /\ \/ \E t \in 0..MaxDeclared : PeerDeclares(t)
       \/ \E at \in 16..MaxFrameLen, pat \in LenPatterns : PeerOverwrites(at, pat)
       \/ wire.by = "peer" /\ steps = 0 /\ Decode(wire.bytes)
       \/ wire.by = "peer" /\ steps = 0 /\ ParseToBodyLen(wire.bytes)

SpecMal == InitMal /\ [][NextMal]_vars

\* C5: decodeMetadata, on a metadata section of the declared length l >= 1,
\* returns a map or ErrMetaKVMissing: it never faults and never reads a byte
\* at an index >= l of the section.
C5_MetadataNeverFaults ==
    (ret.op = "Decode" /\ ret.meta.entered) => ~ret.meta.fault /\ ~ret.meta.oob

\* C6: on a stream that starts with a valid 12-byte header, Decode returns
\* an error value or succeeds having consumed exactly 16 + totalLength
\* bytes; it never faults.
C6_DecodeNeverFaults ==
    (ret.op = "Decode" /\ Len(rd.buf) >= 16 /\ rd.buf[1] = magicNumber) =>
        /\ ret.err # "panic"
        /\ ret.err = "nil" => rd.pos = 16 + IntOf(FrameTotal(rd.buf))

----------------------------------------------------------------------------
(* SpecReuse: one Message is reused: it decodes frames (well-formed or not), *)
(* has its header set and is Reset, in any order, MaxOps times.              *)

SetHeader(h) ==
    /\ steps < MaxOps
    /\ dm' = [dm EXCEPT !.Header = h]
    /\ ret' = [op |-> "Set", err |-> "nil", n |-> 0, meta |-> NoMeta, prev |-> ret.op]
    /\ steps' = steps + 1
    /\ UNCHANGED <<m, Compressors, MaxRpcMessageLength, wire, rd>>

DmSetVersion(v) == SetHeader(SetVersion(dm.Header, v))

DmSetMessageType(mt) == SetHeader(SetMessageType(dm.Header, mt))

DmSetHeartbeat(hb) == SetHeader(SetHeartbeat(dm.Header, hb))

DmSetOneway(oneway) == SetHeader(SetOneway(dm.Header, oneway))

DmSetCompressType(ct) == SetHeader(SetCompressType(dm.Header, ct))

DmSetMessageStatusType(mt) == SetHeader(SetMessageStatusType(dm.Header, mt))

DmSetSerializeType(st) == SetHeader(SetSerializeType(dm.Header, st))

DmSetSeq(seq) == SetHeader(SetSeq(dm.Header, seq))

\* the frames of three Messages: the example, the empty Message, and one
\* with two metadata pairs that is compressed
ExampleMessage ==
    [NewRpcMessage EXCEPT !.ServicePath = Val(ExampleBody.ServicePath),
                          !.ServiceMethod = Val(ExampleBody.ServiceMethod),
                          !.Metadata = MapOf(ExampleBody.Metadata),
                          !.Payload = Val(ExampleBody.Payload)]

ZippedMessage ==
    [NewRpcMessage EXCEPT !.Header = SetSeq(SetCompressType(@, Gzip), <<0, 0, 0, 0, 0, 0, 0, 7>>),
                          !.ServicePath = Val(<<69>>),
                          !.Metadata = MapOf([k \in MetaKeys |-> k]),
                          !.Payload = Val(<<1>>)]

ValidFrames ==
    UNION {{EncodeSlicePointer(msg, order, 0).data :
                order \in Orders(DOMAIN msg.Metadata.kv)} :
           msg \in {ExampleMessage, NewRpcMessage, ZippedMessage}}

\* a valid header followed by a total length of 0
EmptyBodyFrame == NewRpcMessage.Header \o PutUint32(0)

\* a valid header, total length 18, empty path and method, a metadata
\* section declared 2 bytes long, an empty payload
ShortMetaFrame ==
    NewRpcMessage.Header \o PutUint32(18) \o PutUint32(0) \o PutUint32(0)
        \o PutUint32(2) \o <<0, 0>> \o PutUint32(0)

\* a valid header, total length 8, and a metadata pair whose key length is
\* 2^32 - 4
WrapMetaFrame ==
    NewRpcMessage.Header \o PutUint32(24) \o PutUint32(0) \o PutUint32(0)
        \o PutUint32(8) \o <<255, 255, 255, 252>> \o PutUint32(0) \o PutUint32(0)

ReuseStreams ==
    ValidFrames
        \cup {Spoil(f, x) : f \in ValidFrames, x \in BadMagics}
        \cup {SubSeq(f, 1, 14) : f \in ValidFrames}
        \cup {EmptyBodyFrame, ShortMetaFrame, WrapMetaFrame}

InitReuse ==
    /\ NoSessions
    /\ NoEngine
    /\ m = NewRpcMessage
    /\ dm = NewRpcMessage
    /\ Compressors = DefaultCompressors
    /\ MaxRpcMessageLength = 0
    /\ wire = NoWire
    /\ rd = NewReader(<<>>)
    /\ ret = NoRet
    /\ steps = 0

NextReuse ==
    /\ UNCHANGED <<sessVars, engVars>>
    /\ \/ steps < MaxOps /\ \E s \in ReuseStreams : Decode(s)
       \/ steps < MaxOps /\ \E s \in ReuseStreams : ParseToBodyLen(s)
       \/ steps < MaxOps /\ Reset
       \/ \E v \in {0, 1} : DmSetVersion(v)
       \/ \E mt \in {Request, Response} : DmSetMessageType(mt)
       \/ \E hb \in BOOLEAN : DmSetHeartbeat(hb)
       \/ \E oneway \in BOOLEAN : DmSetOneway(oneway)
       \/ \E ct \in CompressArgs : DmSetCompressType(ct)
       \/ \E mt \in {0, 1} : DmSetMessageStatusType(mt)
       \/ \E st \in {0, 1} : DmSetSerializeType(st)
       \/ \E seq \in { <<0, 0, 0, 0, 0, 0, 0, 0>>, <<0, 0, 0, 0, 0, 0, 1, 0>> } : DmSetSeq(seq)

SpecReuse == InitReuse /\ [][NextReuse]_vars

\* C10: after Reset, on a Message reached by any sequence of Decode, header
\* setter and Reset calls, header byte 0 is the magic number, header bytes
\* 1..11 are 0, servicePath and serviceMethod are empty, metadata is absent
\* and payload is empty; and a Decode of a valid frame that follows yields
\* what decoding that frame into a fresh Message yields.
C10_ResetRestores ==
    /\ ret.op = "Reset" =>
        /\ dm.Header = <<magicNumber>> \o Zeros(11)
        /\ Body(dm) = Body(NewRpcMessage)
        /\ dm.Metadata = NilMap
    /\ (ret.op = "Decode" /\ ret.prev = "Reset" /\ rd.buf \in ValidFrames) =>
        LET fresh == DecodeResult(NewRpcMessage, NewReader(rd.buf))
        IN  /\ ret.err = fresh.err
            /\ dm.Header = fresh.m.Header
            /\ Body(dm) = Body(fresh.m)
            /\ dm.Metadata = fresh.m.Metadata
            /\ rd = fresh.r

----------------------------------------------------------------------------
(* Sessions: operations *)

\* the results of one conn.Write call: nil, or an error by what it reports
\* (net.Error or not, Timeout(), Temporary())
WriteResults ==
    {"nil", "timeout", "temporary", "timeoutTemporary", "netOther", "nonNet"}

\* ne, ok := err.(net.Error)
IsNetError(err) == err \in {"timeout", "temporary", "timeoutTemporary", "netOther"}

Timeout(err) == err \in {"timeout", "timeoutTemporary"}

Temporary(err) == err \in {"temporary", "timeoutTemporary"}

RetryAlways(i, k, err) == TRUE

RetryTemporaryFirst(i, k, err) ==
    IF err = "nil" \/ i = k - 1 THEN FALSE
    ELSE IF ~IsNetError(err) THEN FALSE
    ELSE Temporary(err)

\* attemptConnWrite, after the Write of attempt i (from 0) of k returned
\* err: TRUE for continue, FALSE for break
Retry(i, k, err) ==
    IF err = "nil" \/ i = k - 1 THEN FALSE
    ELSE IF ~IsNetError(err) THEN FALSE
    ELSE IF Timeout(err) THEN FALSE
    ELSE IF Temporary(err) THEN TRUE
    ELSE FALSE

CloseSessionNoOnce(ss) ==
    [ss EXCEPT !.closeOnce = TRUE, !.closed = TRUE, !.fired = @ + 1,
               !.faulted = @ \/ ss.closed, !.sendq = <<>>]

\* s.Close(): s.closeOnce.Do(func() { close(s.closed) }).  Closing a closed
\* channel faults.
CloseSession(ss) ==
    IF ss.closeOnce THEN ss
    ELSE [ss EXCEPT !.closeOnce = TRUE, !.closed = TRUE, !.fired = @ + 1,
                    !.faulted = @ \/ ss.closed, !.sendq = <<>>]

\* close(s.closed) resumes every Send suspended in its select, by the case
\* <-s.closed
CloseTasks(ss, ts) ==
    IF ss.closeOnce THEN ts
    ELSE [i \in Reqs |->
            IF ts[i].pc = "parked"
            THEN [ts[i] EXCEPT !.pc = "dropped", !.by = "closed"]
            ELSE ts[i]]

SendReadyUnbounded(ss, t, cap) ==
    {c \in {"done", "closed", "queue"} :
        \/ c = "done" /\ t.scope = "cancelled"
        \/ c = "closed" /\ ss.closed
        \/ c = "queue"}

\* Send's select: the cases that can proceed at once
SendReady(ss, t, cap) ==
    {c \in {"done", "closed", "queue"} :
        \/ c = "done" /\ t.scope = "cancelled"
        \/ c = "closed" /\ ss.closed
        \/ c = "queue" /\ Len(ss.respQueue) < cap}

WriteLoopReadyIgnoresClosed(ss) ==
    {c \in {"queue"} : ss.respQueue # <<>>}

\* writeOutbound's select: the cases that can proceed at once.  The receive
\* can proceed when the buffer holds a Context or, on an unbuffered channel
\* (respQueueSize 0), when a Send is suspended on it
WriteLoopReady(ss) ==
    {c \in {"closed", "queue"} :
        \/ c = "closed" /\ ss.closed
        \/ c = "queue" /\ (ss.respQueue # <<>> \/ ss.sendq # <<>>)}

DequeuedKeeps(q) == q

\* what ctx = <-s.respQueue leaves in the channel's buffer
Dequeued(q) == Tail(q)

\* the Context ctx = <-s.respQueue receives
Received(q) == Head(q)

\* the Context the write loop's receive gets: the head of the buffer, or
\* with an empty buffer the Context of the first suspended Send
ReceivedFrom(s, ss) ==
    IF ss.respQueue # <<>> THEN Received(ss.respQueue)
    ELSE Ctx(s, Head(ss.sendq))

\* the session after a receive from respQueue: the first suspended Send, if
\* any, places its Context in the freed slot, or hands it to the receiver
\* when the buffer is empty
AfterReceive(s, ss) ==
    IF ss.sendq = <<>> THEN [ss EXCEPT !.respQueue = Dequeued(@)]
    ELSE IF ss.respQueue = <<>>
         THEN [ss EXCEPT !.enq = Append(@, Ctx(s, Head(ss.sendq))),
                         !.sendq = Tail(@)]
    ELSE [ss EXCEPT !.respQueue = Append(Dequeued(@), Ctx(s, Head(ss.sendq))),
                    !.enq = Append(@, Ctx(s, Head(ss.sendq))),
                    !.sendq = Tail(@)]

\* and that Send returns true
AfterReceiveTasks(ss, ts) ==
    IF ss.sendq = <<>> THEN ts
    ELSE [ts EXCEPT ![Head(ss.sendq)].pc = "sent", ![Head(ss.sendq)].by = "queue"]

\* q without its element x
RECURSIVE Without(_, _)
Without(q, x) ==
    IF q = <<>> THEN <<>>
    ELSE IF Head(q) = x THEN Tail(q)
    ELSE <<Head(q)>> \o Without(Tail(q), x)

AfterWriteIgnoresError(err) == "select"

\* writeOutbound after attemptConnWrite returned err: the next iteration,
\* or break
AfterWrite(err) == IF err = "nil" THEN "select" ELSE "closing"

DispatchAlwaysAsync(async) == "check"

\* readInbound after it took a request: with asyncRouter it starts
\* go s.handleReq(...) and loops; without, it is inside s.handleReq(...)
Dispatch(async) == IF async THEN "check" ELSE "wait"

\* s.Close() called from outside the Session's loops
ExternalClose(s) ==
    /\ sess[s].extCloses < MaxCloses
    /\ sess' = [sess EXCEPT ![s] = [CloseSession(@) EXCEPT !.extCloses = @ + 1]]
    /\ tasks' = [tasks EXCEPT ![s] = CloseTasks(sess[s], @)]
    /\ UNCHANGED <<msgVars, engVars, cfg, rl, wl, conn>>

\* readInbound: select { case <-s.closed: return; default: } at the top of
\* the loop (in synchronous dispatch, once handleReq has returned)
RlCheck(s) ==
    /\ \/ rl[s].pc = "check"
       \/ /\ rl[s].pc = "wait"
          /\ tasks[s][rl[s].n].pc \in {"sent", "dropped"}
    /\ rl' = [rl EXCEPT ![s].pc = IF sess[s].closed THEN "done" ELSE "unpack"]
    /\ UNCHANGED <<msgVars, engVars, cfg, sess, tasks, wl, conn>>

\* readInbound: s.packer.Unpack(s.conn) returns a request, which is
\* dispatched
RlUnpackReq(s) ==
    /\ rl[s].pc = "unpack"
    /\ conn[s].open
    /\ rl[s].n < MaxReqs
    /\ rl' = [rl EXCEPT ![s].n = @ + 1, ![s].pc = Dispatch(cfg[s].asyncRouter)]
    /\ tasks' = [tasks EXCEPT ![s][rl[s].n + 1].pc = "handle"]
    /\ UNCHANGED <<msgVars, engVars, cfg, sess, wl, conn>>

\* readInbound: Unpack returns a request whose Header is h, then
\* handleReq (as RlUnpackReq)
RlUnpackHeader(s, h) ==
    /\ rl[s].pc = "unpack"
    /\ conn[s].open
    /\ rl[s].n < MaxReqs
    /\ rl' = [rl EXCEPT ![s].n = @ + 1, ![s].pc = Dispatch(cfg[s].asyncRouter)]
    /\ tasks' = [tasks EXCEPT ![s][rl[s].n + 1].pc = "handle",
                              ![s][rl[s].n + 1].oneway = IsOneway(h)]
    /\ UNCHANGED <<msgVars, engVars, cfg, sess, wl, conn>>

\* readInbound: Unpack returns no entry and no error: continue
RlUnpackNil(s) ==
    /\ rl[s].pc = "unpack"
    /\ conn[s].open
    /\ rl' = [rl EXCEPT ![s].pc = "check"]
    /\ UNCHANGED <<msgVars, engVars, cfg, sess, tasks, wl, conn>>

\* readInbound: SetReadDeadline or Unpack fails on the open connection
\* (the peer hung up, sent a bad frame, or the read timed out): break
RlUnpackErr(s) ==
    /\ rl[s].pc = "unpack"
    /\ conn[s].open
    /\ rl' = [rl EXCEPT ![s].pc = "closing"]
    /\ UNCHANGED <<msgVars, engVars, cfg, sess, tasks, wl, conn>>

\* streamSession.readInbound: Unpack fails because the Engine closed the
\* connection
RlUnpackClosed(s) ==
    /\ rl[s].pc = "unpack"
    /\ s \notin engine.ws
    /\ ~conn[s].open
    /\ rl' = [rl EXCEPT ![s].pc = "closing"]
    /\ UNCHANGED <<msgVars, engVars, cfg, sess, tasks, wl, conn>>

\* wsSession.readInbound: s.conn.ReadMessage() returns an error, the
\* connection being closed or the peer gone: continue
WsReadErr(s) ==
    /\ rl[s].pc = "unpack"
    /\ s \in engine.ws
    /\ ~conn[s].open \/ conn[s].readFails
    /\ rl' = [rl EXCEPT ![s].pc = "check"]
    /\ UNCHANGED <<msgVars, engVars, cfg, sess, tasks, wl, conn>>

\* readInbound: Unpack does not return: decoding the frame panics (a
\* malformed length makes Decode or decodeMetadata slice out of range).
\* readInbound recovers nothing, so the panic ends the process.
RlUnpackPanic(s) ==
    /\ rl[s].pc = "unpack"
    /\ conn[s].open
    /\ rl' = [rl EXCEPT ![s].pc = "panicked"]
    /\ engine' = [engine EXCEPT !.crashed = TRUE]
    /\ UNCHANGED <<msgVars, rctx, pools, svcVars, cfg, sess, tasks, wl, conn>>

\* the peer goes away: every later read from the connection fails
ConnBreak(s) ==
    /\ conn[s].open
    /\ ~conn[s].readFails
    /\ conn' = [conn EXCEPT ![s].readFails = TRUE]
    /\ UNCHANGED <<msgVars, engVars, cfg, sess, tasks, rl, wl>>

\* readInbound after the loop: s.Close()
RlClose(s) ==
    /\ rl[s].pc = "closing"
    /\ rl' = [rl EXCEPT ![s].pc = "done"]
    /\ sess' = [sess EXCEPT ![s] = CloseSession(@)]
    /\ tasks' = [tasks EXCEPT ![s] = CloseTasks(sess[s], @)]
    /\ UNCHANGED <<msgVars, engVars, cfg, wl, conn>>

\* handleReq: router.handle(ctx) returns, the handlers having set a
\* response or not and left the Context's scope as scope
Handle(s, i, rsp, scope) ==
    /\ tasks[s][i].pc = "handle"
    /\ tasks' = [tasks EXCEPT ![s][i].pc = "send", ![s][i].rsp = rsp,
                              ![s][i].scope = scope]
    /\ UNCHANGED <<msgVars, engVars, cfg, sess, rl, wl, conn>>

\* a handler of request i calls c.Send() (c.session.Send(c)) on its own
\* Context, once, and the select of Send takes case s.respQueue <- ctx at
\* once; router.handle has not returned yet
HandlerSend(s, i) ==
    /\ tasks[s][i].pc = "handle"
    /\ ~sess[s].closed
    /\ Len(sess[s].respQueue) < cfg[s].respQueueSize
    /\ \A j \in 1..Len(sess[s].enq) : sess[s].enq[j] # Ctx(s, i)
    /\ sess' = [sess EXCEPT ![s].respQueue = Append(@, Ctx(s, i)),
                            ![s].enq = Append(@, Ctx(s, i))]
    /\ UNCHANGED <<msgVars, engVars, cfg, tasks, rl, wl, conn>>

\* the Context's cancellation fires while its Send is pending
Cancel(s, i) ==
    /\ tasks[s][i].scope = "live"
    /\ tasks[s][i].pc \in {"send", "parked"}
    /\ IF tasks[s][i].pc = "parked"
       THEN /\ tasks' = [tasks EXCEPT ![s][i].scope = "cancelled",
                                      ![s][i].pc = "dropped", ![s][i].by = "done"]
            /\ sess' = [sess EXCEPT ![s].sendq = Without(@, i)]
       ELSE /\ tasks' = [tasks EXCEPT ![s][i].scope = "cancelled"]
            /\ UNCHANGED sess
    /\ UNCHANGED <<msgVars, engVars, cfg, rl, wl, conn>>

\* handleReq: s.Send(ctx) reaches its select.  A case that can proceed is
\* taken (any of them, if several can); if none can, Send is suspended.
Send(s, i) ==
    /\ tasks[s][i].pc = "send"
    /\ LET ss == sess[s]
           t == tasks[s][i]
           ready == SendReady(ss, t, cfg[s].respQueueSize)
           pre == [closed |-> ss.closed, done |-> t.scope = "cancelled",
                   room |-> Len(ss.respQueue) < cfg[s].respQueueSize]
       IN  IF ready = {}
           THEN /\ tasks' = [tasks EXCEPT ![s][i].pc = "parked", ![s][i].pre = pre,
                                          ![s][i].deqs = wl[s].deqs]
                /\ sess' = [sess EXCEPT ![s].sendq = Append(@, i)]
           ELSE \E c \in ready :
                IF c = "queue"
                THEN /\ tasks' = [tasks EXCEPT ![s][i].pc = "sent", ![s][i].by = c,
                                               ![s][i].pre = pre,
                                               ![s][i].deqs = wl[s].deqs]
                     /\ sess' = [sess EXCEPT ![s].respQueue = Append(@, Ctx(s, i)),
                                             ![s].enq = Append(@, Ctx(s, i))]
                ELSE /\ tasks' = [tasks EXCEPT ![s][i].pc = "dropped", ![s][i].by = c,
                                               ![s][i].pre = pre,
                                               ![s][i].deqs = wl[s].deqs]
                     /\ UNCHANGED sess
    /\ UNCHANGED <<msgVars, engVars, cfg, rl, wl, conn>>

\* writeOutbound: the select takes case <-s.closed: return
WlReturn(s) ==
    /\ wl[s].pc = "select"
    /\ "closed" \in WriteLoopReady(sess[s])
    /\ wl' = [wl EXCEPT ![s].pc = "done"]
    /\ UNCHANGED <<msgVars, engVars, cfg, sess, tasks, rl, conn>>

PackResponseNoPut(ts, ctx) == ts

\* packResponse(ctx): defer s.ctxPool.Put(ctx), on every path
PackResponsePut(ts, ctx) == [ts EXCEPT ![ctx.req].puts = @ + 1]

\* writeOutbound: if writeTimeout > 0, SetWriteDeadline is called
ArmsDeadline(writeTimeout) == writeTimeout > 0

\* writeOutbound: the select takes case ctx = <-s.respQueue; then
\* packResponse (packOK: Pack returns no error) and, with a write timeout,
\* SetWriteDeadline (deadlineOK: it returns no error), up to the first
\* conn.Write of attemptConnWrite
WlDequeue(s, packOK, deadlineOK) ==
    /\ wl[s].pc = "select"
    /\ "queue" \in WriteLoopReady(sess[s])
    /\ LET ctx == ReceivedFrom(s, sess[s])
           k == cfg[s].attemptTimes
           v == [wl[s] EXCEPT !.ctx = ctx, !.deqs = @ + 1, !.calls = <<>>,
                              !.returned = FALSE, !.i = 0, !.err = "nil"]
           w == [v EXCEPT !.armed = IF ArmsDeadline(cfg[s].writeTimeout) THEN @ + 1 ELSE @]
       IN  /\ sess' = [sess EXCEPT ![s] = AfterReceive(s, @)]
           /\ tasks' = [tasks EXCEPT ![s] =
                           PackResponsePut(AfterReceiveTasks(sess[s], @), ctx)]
           /\ wl' = [wl EXCEPT ![s] =
                 IF ~tasks[ctx.sess][ctx.req].rsp \/ ~packOK THEN v
                 ELSE IF cfg[s].writeTimeout > 0 /\ ~deadlineOK
                      THEN [w EXCEPT !.pc = "closing", !.failed = TRUE,
                                     !.failDeqs = w.deqs,
                                     !.failOut = Len(conn[s].out)]
                 ELSE IF k <= 0 THEN [w EXCEPT !.returned = TRUE]
                 ELSE [w EXCEPT !.pc = "write"]]
    /\ UNCHANGED <<msgVars, engVars, cfg, rl, conn>>

\* attemptConnWrite: the conn.Write of attempt wl.i returns err; then break
\* (return err) or continue
WlWrite(s, err) ==
    /\ wl[s].pc = "write"
    /\ conn[s].open \/ err = "netOther"
    /\ LET k == cfg[s].attemptTimes
           w == [wl[s] EXCEPT !.err = err, !.calls = Append(@, err)]
       IN  /\ conn' = [conn EXCEPT ![s].out =
                          IF err = "nil" THEN Append(@, wl[s].ctx) ELSE @]
           /\ wl' = [wl EXCEPT ![s] =
                 IF Retry(w.i, k, err) /\ w.i + 1 < k THEN [w EXCEPT !.i = @ + 1]
                 ELSE IF err = "nil"
                      THEN [w EXCEPT !.pc = AfterWrite(err), !.returned = TRUE]
                 ELSE [w EXCEPT !.pc = AfterWrite(err), !.returned = TRUE,
                                !.failed = TRUE, !.failDeqs = w.deqs,
                                !.failOut = Len(conn[s].out)]]
    /\ UNCHANGED <<msgVars, engVars, cfg, sess, tasks, rl>>

\* writeOutbound after the loop: s.Close()
WlClose(s) ==
    /\ wl[s].pc = "closing"
    /\ wl' = [wl EXCEPT ![s].pc = "done"]
    /\ sess' = [sess EXCEPT ![s] = CloseSession(@)]
    /\ tasks' = [tasks EXCEPT ![s] = CloseTasks(sess[s], @)]
    /\ UNCHANGED <<msgVars, engVars, cfg, rl, conn>>

HandleConnReadyAtOnce(ss, e) == {"closed", "stopped"}

\* handleConn / ServeWS: the cases of select { case <-sess.closed: case
\* <-engine.stopped: } that can proceed (a nil channel never does)
HandleConnReady(ss, e) ==
    {c \in {"closed", "stopped"} :
        \/ c = "closed" /\ ss.closed
        \/ c = "stopped" /\ e.stopped = "closed"}

\* handleConn: its select has proceeded, handleConn returns and its
\* deferred conn.Close() runs
EngineCloseConn(s) ==
    /\ HandleConnReady(sess[s], engine) # {}
    /\ conn[s].open
    /\ conn' = [conn EXCEPT ![s].open = FALSE]
    /\ UNCHANGED <<msgVars, engVars, cfg, sess, tasks, rl, wl>>

----------------------------------------------------------------------------
(* SpecSession: one Session, created by handleConn with any settings, its   *)
(* read loop, its write loop, the handleReq calls of up to MaxReqs requests, *)
(* callers of Close, cancellations, and the Engine closing the connection.  *)

\* no Message is being encoded or decoded
NoMessages ==
    /\ m = NewRpcMessage
    /\ dm = NewRpcMessage
    /\ Compressors = DefaultCompressors
    /\ MaxRpcMessageLength = 0
    /\ wire = NoWire
    /\ rd = NewReader(<<>>)
    /\ ret = NoRet
    /\ steps = 0

\* the settings Sessions are created with: either dispatch mode, every
\* queue size and attempt count up to the bounds, no write timeout with one
\* attempt and a write timeout with more
Cfgs ==
    {[asyncRouter |-> a, respQueueSize |-> n, attemptTimes |-> k,
      writeTimeout |-> IF k = 1 THEN 0 ELSE 1] :
        a \in BOOLEAN, n \in 1..QueueSize, k \in 1..MaxAttempts}

\* the scopes a handler leaves its Context with (a "live" one is cancelled
\* by Cancel, at once or later)
Scopes == {"background", "live"}

\* the results of conn.Write in the session specifications: success, an
\* error that is retried and one that is not
SessionWriteResults == {"nil", "temporary", "netOther"}

\* the Session the single-session specifications run
TheSession == "s1"

InitSession ==
    /\ NoMessages
    /\ NoEngine
    /\ cfg \in {[s \in Sessions |-> IF s = TheSession THEN c ELSE DefaultCfg] : c \in Cfgs}
    /\ sess = [s \in Sessions |-> NewSession]
    /\ tasks = [s \in Sessions |-> [i \in Reqs |-> NewTask]]
    /\ rl = [s \in Sessions |-> NewReadLoop]
    /\ wl = [s \in Sessions |-> NewWriteLoop]
    /\ conn = [s \in Sessions |-> NewConn]

\* the steps of the program on Session s
Progress(s) ==
    \/ RlCheck(s)
    \/ RlUnpackClosed(s)
    \/ RlClose(s)
    \/ \E i \in Reqs : Send(s, i)
    \/ WlReturn(s)
    \/ \E packOK \in BOOLEAN, deadlineOK \in BOOLEAN : WlDequeue(s, packOK, deadlineOK)
    \/ \E err \in SessionWriteResults : WlWrite(s, err)
    \/ WlClose(s)
    \/ EngineCloseConn(s)
    \/ \E i \in Reqs, rsp \in BOOLEAN, scope \in Scopes : Handle(s, i, rsp, scope)

\* what the peer and other goroutines do to Session s
Environment(s) ==
    \/ RlUnpackReq(s)
    \/ RlUnpackNil(s)
    \/ RlUnpackErr(s)
    \/ ExternalClose(s)
    \/ \E i \in Reqs : Cancel(s, i)

NextSession == Progress(TheSession) \/ Environment(TheSession)

SpecSession == InitSession /\ [][NextSession]_vars

\* the same under fair scheduling: goroutines that can run do run, handlers
\* and socket operations return
SpecSessionFair == SpecSession /\ WF_vars(Progress(TheSession))

----------------------------------------------------------------------------
(* Properties of SpecSession *)

\* the elements of a sequence
Range(q) == {q[j] : j \in 1..Len(q)}

\* C11: for one Session and any number of Close calls in any interleaving
\* (read loop, write loop, other callers), close(s.closed) is executed
\* exactly once, no call faults, and a closed Session never reopens.
C11_CloseOnce ==
    /\ [](LET ss == sess[TheSession]
          IN  /\ ss.fired <= 1
              /\ ~ss.faulted
              /\ ss.closed <=> ss.fired = 1
              /\ ss.extCloses > 0 => ss.fired = 1
              /\ rl[TheSession].pc = "done" => ss.fired = 1
              /\ wl[TheSession].pc = "done" => ss.fired = 1)
    /\ [][sess[TheSession].closed => sess'[TheSession].closed]_vars

\* Close was called from outside after the read loop and the write loop
\* had each called it
C11_Witness ==
    /\ sess[TheSession].fired = 1
    /\ sess[TheSession].extCloses = MaxCloses
    /\ rl[TheSession].pc = "done"
    /\ rl[TheSession].n < MaxReqs
    /\ wl[TheSession].pc = "done"
    /\ wl[TheSession].failed

\* C13: Send invoked when the closed signal has fired, or when the Context's
\* cancellation has fired, returns false and does not place the Context in
\* the response queue, even when the queue has free capacity.
C13_SendAfterClosedOrCancelled ==
    \A i \in Reqs :
        LET t == tasks[TheSession][i]
        IN  (t.pc \in {"sent", "dropped"} /\ (t.pre.closed \/ t.pre.done)) =>
                /\ t.pc = "dropped"
                /\ Ctx(TheSession, i) \notin Range(sess[TheSession].enq)

\* C14: the response queue of a Session created with capacity N holds at
\* most N Contexts; a Send that found the queue full returns true only after
\* the write loop has dequeued an item, and returns false when the Session
\* closes or the Context is cancelled first.
C14_Backpressure ==
    LET ss == sess[TheSession]
    IN  /\ Len(ss.respQueue) <= cfg[TheSession].respQueueSize
        /\ \A i \in Reqs :
            LET t == tasks[TheSession][i]
            IN  /\ (t.pc = "sent" /\ ~t.pre.room) =>
                      /\ wl[TheSession].deqs > t.deqs
                      /\ t.by = "queue"
                /\ t.pc = "parked" =>
                      /\ ~ss.closed
                      /\ t.scope # "cancelled"
                      /\ Len(ss.respQueue) = cfg[TheSession].respQueueSize
                /\ (t.pc = "dropped" /\ ~t.pre.room) => t.by \in {"closed", "done"}
                /\ t.by \in {"closed", "done"} => t.pc = "dropped"

\* a Send that was suspended on the full queue has returned true after a
\* dequeue, and its Context fills the queue again
C14_Witness ==
    /\ Len(sess[TheSession].respQueue) = cfg[TheSession].respQueueSize
    /\ wl[TheSession].deqs = 1
    /\ \E i \in Reqs :
        /\ tasks[TheSession][i].pc = "sent"
        /\ ~tasks[TheSession][i].pre.room
        /\ ~tasks[TheSession][i].pre.closed
        /\ Ctx(TheSession, i) \in Range(sess[TheSession].respQueue)

\* C12: once a Session's closed signal has fired, its read loop and its
\* write loop both terminate, under fair scheduling, in synchronous and in
\* asynchronous dispatch, whatever the response queue holds.
C12_LoopsTerminate ==
    sess[TheSession].closed ~>
        (rl[TheSession].pc = "done" /\ wl[TheSession].pc = "done")

\* the signal fired while handleReq was suspended in Send on the full queue
\* and both loops are done, a Context still queued
C12_Witness ==
    /\ sess[TheSession].closed
    /\ rl[TheSession].pc = "done"
    /\ wl[TheSession].pc = "done"
    /\ sess[TheSession].respQueue # <<>>
    /\ \E i \in Reqs :
        /\ tasks[TheSession][i].pc = "dropped"
        /\ tasks[TheSession][i].by = "closed"
        /\ ~tasks[TheSession][i].pre.closed
        /\ ~tasks[TheSession][i].pre.room

\* C15: every Context for which Send returned true is eventually dequeued
\* by the Session's write loop, in every execution.
C15_AcceptedIsDequeued ==
    \A i \in Reqs :
        (tasks[TheSession][i].pc = "sent") ~>
            (Ctx(TheSession, i) \notin Range(sess[TheSession].respQueue))

\* the request numbers of a sequence of Contexts grow strictly
InRequestOrder(q) == \A j, k \in 1..Len(q) : j < k => q[j].req < q[k].req

----------------------------------------------------------------------------
(* SpecWrite: one Session with synchronous dispatch whose connection's     *)
(* Write calls return every kind of result; nothing is cancelled, and only  *)
(* the Session's loops close it.                                            *)

InitWrite ==
    /\ NoMessages
    /\ NoEngine
    /\ cfg \in {[s \in Sessions |-> IF s = TheSession THEN c ELSE DefaultCfg] :
                    c \in {x \in Cfgs : ~x.asyncRouter}}
    /\ sess = [s \in Sessions |-> NewSession]
    /\ tasks = [s \in Sessions |-> [i \in Reqs |-> NewTask]]
    /\ rl = [s \in Sessions |-> NewReadLoop]
    /\ wl = [s \in Sessions |-> NewWriteLoop]
    /\ conn = [s \in Sessions |-> NewConn]

WriteProgress(s) ==
    \/ RlCheck(s)
    \/ RlClose(s)
    \/ \E i \in Reqs : Send(s, i)
    \/ WlReturn(s)
    \/ \E packOK \in BOOLEAN, deadlineOK \in BOOLEAN : WlDequeue(s, packOK, deadlineOK)
    \/ \E err \in WriteResults : WlWrite(s, err)
    \/ WlClose(s)
    \/ \E i \in Reqs, rsp \in BOOLEAN : Handle(s, i, rsp, "background")

NextWrite ==
    \/ WriteProgress(TheSession)
    \/ RlUnpackReq(TheSession)
    \/ RlUnpackErr(TheSession)

SpecWrite == InitWrite /\ [][NextWrite]_vars /\ WF_vars(WriteProgress(TheSession))

\* C18: one attemptConnWrite with attempt count k >= 1 makes at least 1 and
\* at most k Write calls, none after the first that succeeded, and returns
\* nil exactly when a call succeeded, otherwise the last call's error.
C18_AttemptBounds ==
    LET w == wl[TheSession]
        k == cfg[TheSession].attemptTimes
        n == Len(w.calls)
    IN  /\ n <= k
        /\ \A j \in 1..(n - 1) : w.calls[j] # "nil"
        /\ w.pc = "write" => (n < k /\ n = w.i /\ "nil" \notin Range(w.calls))
        /\ w.returned =>
              /\ n >= 1
              /\ w.err = w.calls[n]
              /\ w.err = "nil" <=> "nil" \in Range(w.calls)

\* k attempts were made and the last one succeeded
C18_Witness ==
    /\ wl[TheSession].returned
    /\ cfg[TheSession].attemptTimes = MaxAttempts
    /\ Len(wl[TheSession].calls) = MaxAttempts
    /\ wl[TheSession].err = "nil"
    /\ Len(conn[TheSession].out) = 1

\* C19: in attemptConnWrite, after a failed Write that is not the last
\* allowed attempt, an error reporting Timeout() ends the attempts (also
\* when it reports Temporary()), an error reporting Temporary() and not
\* Timeout() is followed by another attempt, and any other error ends them.
C19_RetryClassification ==
    LET w == wl[TheSession]
        k == cfg[TheSession].attemptTimes
        n == Len(w.calls)
    IN  /\ \A j \in 1..(n - 1) : Temporary(w.calls[j]) /\ ~Timeout(w.calls[j])
        /\ (w.returned /\ n >= 1 /\ n < k) =>
              ~(Temporary(w.calls[n]) /\ ~Timeout(w.calls[n]))
        /\ (w.pc = "write" /\ n >= 1) =>
              (Temporary(w.calls[n]) /\ ~Timeout(w.calls[n]))

\* a Write that failed with an error reporting both Timeout() and
\* Temporary() ended the attempts before the last one
C19_Witness ==
    /\ wl[TheSession].returned
    /\ wl[TheSession].calls = <<"timeoutTemporary">>
    /\ cfg[TheSession].attemptTimes > 1
    /\ wl[TheSession].err = "timeoutTemporary"

\* C20: when the write of a response fails (the attempts are exhausted or
\* the error is not retried), the write loop dequeues no further Context
\* and writes no further response, fires the closed signal and terminates.
C20_WriteFailureCloses ==
    /\ [](LET w == wl[TheSession]
          IN  w.failed =>
                /\ w.pc \in {"closing", "done"}
                /\ w.deqs = w.failDeqs
                /\ Len(conn[TheSession].out) = w.failOut
                /\ w.pc = "done" => sess[TheSession].closed)
    /\ wl[TheSession].failed ~>
          (wl[TheSession].pc = "done" /\ sess[TheSession].closed)

\* the attempts were exhausted on temporary errors; the loop is done with a
\* Context still queued behind the failed one
C20_Witness ==
    /\ wl[TheSession].failed
    /\ wl[TheSession].pc = "done"
    /\ Len(wl[TheSession].calls) = MaxAttempts
    /\ wl[TheSession].err = "temporary"
    /\ sess[TheSession].respQueue # <<>>
    /\ tasks[TheSession][Head(sess[TheSession].respQueue).req].rsp

----------------------------------------------------------------------------
(* SpecFanOut: every Session of Sessions runs at once with synchronous      *)
(* dispatch; each receives MaxReqs requests whose handlers set a response;  *)
(* nothing is cancelled, no Write or Pack fails, nothing closes a Session.  *)

InitFanOut ==
    /\ NoMessages
    /\ NoEngine
    /\ cfg \in [Sessions -> {x \in Cfgs : ~x.asyncRouter}]
    /\ sess = [s \in Sessions |-> NewSession]
    /\ tasks = [s \in Sessions |-> [i \in Reqs |-> NewTask]]
    /\ rl = [s \in Sessions |-> NewReadLoop]
    /\ wl = [s \in Sessions |-> NewWriteLoop]
    /\ conn = [s \in Sessions |-> NewConn]

FanOutStep(s) ==
    \/ RlCheck(s)
    \/ RlUnpackReq(s)
    \/ \E i \in Reqs : Handle(s, i, TRUE, "background")
    \/ \E i \in Reqs : Send(s, i)
    \/ WlDequeue(s, TRUE, TRUE)
    \/ WlWrite(s, "nil")

NextFanOut == \E s \in Sessions : FanOutStep(s)

SpecFanOut ==
    InitFanOut /\ [][NextFanOut]_vars /\ \A s \in Sessions : WF_vars(FanOutStep(s))

\* the frames written on all connections
FramesWritten(c) == UNION {{<<s, j>> : j \in 1..Len(c[s].out)} : s \in Sessions}

\* C17: with synchronous dispatch, N concurrent Sessions each receiving M
\* requests whose handlers set a response (no cancellation, write error or
\* close) write exactly N*M response frames: one per request, on the
\* connection of the Session that decoded the request, never duplicated.
C17_FanOut ==
    /\ [](\A s \in Sessions :
            /\ \A j \in 1..Len(conn[s].out) :
                 /\ conn[s].out[j].sess = s
                 /\ tasks[s][conn[s].out[j].req].pc = "sent"
            /\ \A j, k \in 1..Len(conn[s].out) :
                 j # k => conn[s].out[j] # conn[s].out[k]
            /\ InRequestOrder(conn[s].out))
    /\ [](Cardinality(FramesWritten(conn)) <= Cardinality(Sessions) * MaxReqs)
    /\ <>[](/\ Cardinality(FramesWritten(conn)) = Cardinality(Sessions) * MaxReqs
            /\ \A s \in Sessions : Len(conn[s].out) = MaxReqs)

\* all N*M frames are written, each Session's on its own connection
C17_Witness ==
    /\ \A s \in Sessions :
        /\ Len(conn[s].out) = MaxReqs
        /\ \A i \in Reqs : conn[s].out[i] = Ctx(s, i)
    /\ \E s \in Sessions : cfg[s].attemptTimes = MaxAttempts

----------------------------------------------------------------------------
(* Engine: operations *)

DefaultRespQueueSize == 1024

DefaultWriteAttemptTimes == 1

\* handleConn / ServeWS: the sessionOption and the arguments of the loops,
\* taken from the Engine's fields as they are
CfgOf(e) ==
    [asyncRouter |-> e.asyncRouter, respQueueSize |-> e.respQueueSize,
     attemptTimes |-> e.writeAttemptTimes, writeTimeout |-> e.writeTimeout]

\* isStopped: select { case <-engine.stopped: return true; default: return
\* false }.  A receive from a nil channel never proceeds.
IsStopped(e) == e.stopped = "closed"

\* the errors Listener.Accept returns, by what they report (as for Write)
AcceptErrors == WriteResults \ {"nil"}

AcceptRetryAnyNetError(err) == IsNetError(err)

\* acceptLoop: if ne, ok := err.(net.Error); ok && ne.Temporary() (sleep
\* tempErrDelay, continue)
AcceptRetry(err) == IsNetError(err) /\ Temporary(err)

\* acceptLoop: the socket options of an accepted connection.  tcp: the
\* connection is a *net.TCPConn; rbOK, wbOK, ndOK: SetReadBuffer,
\* SetWriteBuffer, SetNoDelay return no error.  The result is "nil" or the
\* error acceptLoop returns.
SocketOptions(e, tcp, rbOK, wbOK, ndOK) ==
    IF e.socketReadBufferSize > 0 /\ tcp /\ ~rbOK THEN "readBufferErr"
    ELSE IF e.socketWriteBufferSize > 0 /\ tcp /\ ~wbOK THEN "writeBufferErr"
    ELSE IF e.socketSendDelay /\ tcp /\ ~ndOK THEN "noDelayErr"
    ELSE "nil"

\* acceptLoop: close(s.accepting).  Closing a nil or a closed channel
\* panics, and nothing recovers it.
AcceptStart ==
    /\ engine.pc = "idle"
    /\ ~engine.crashed
    /\ engine' = IF engine.accepting = "open"
                 THEN [engine EXCEPT !.accepting = "closed", !.pc = "check"]
                 ELSE [engine EXCEPT !.pc = "panicked", !.crashed = TRUE]
    /\ UNCHANGED <<msgVars, sessVars, rctx, pools, svcVars>>

\* acceptLoop: if s.isStopped() { return ErrServerStopped } at the top of
\* the loop
AcceptCheck ==
    /\ engine.pc = "check"
    /\ ~engine.crashed
    /\ engine' = IF IsStopped(engine)
                 THEN [engine EXCEPT !.pc = "returned", !.ret = "ErrServerStopped"]
                 ELSE [engine EXCEPT !.pc = "accept"]
    /\ UNCHANGED <<msgVars, sessVars, rctx, pools, svcVars>>

\* acceptLoop: s.Listener.Accept() returns a connection
AcceptConn ==
    /\ engine.pc = "accept"
    /\ ~engine.crashed
    /\ engine.conns < MaxConns
    /\ engine' = [engine EXCEPT !.conns = @ + 1, !.last = "conn", !.pc = "options"]
    /\ UNCHANGED <<msgVars, sessVars, rctx, pools, svcVars>>

\* acceptLoop: s.Listener.Accept() returns err
AcceptErr(err) ==
    /\ engine.pc = "accept"
    /\ ~engine.crashed
    /\ engine.retries < MaxAcceptErrs
    /\ engine' = [engine EXCEPT !.retries = @ + 1, !.last = err, !.pc = "failed"]
    /\ UNCHANGED <<msgVars, sessVars, rctx, pools, svcVars>>

\* acceptLoop after a failed Accept: stopped, temporary (sleep, continue)
\* or return the error
AcceptFailed ==
    /\ engine.pc = "failed"
    /\ ~engine.crashed
    /\ engine' = IF IsStopped(engine)
                 THEN [engine EXCEPT !.pc = "returned", !.ret = "ErrServerStopped"]
                 ELSE IF AcceptRetry(engine.last)
                      THEN [engine EXCEPT !.pc = "check"]
                 ELSE [engine EXCEPT !.pc = "returned", !.ret = "acceptErr"]
    /\ UNCHANGED <<msgVars, sessVars, rctx, pools, svcVars>>

\* acceptLoop with an accepted connection: the socket options, then
\* go s.handleConn(conn)
AcceptOptions(tcp, rbOK, wbOK, ndOK) ==
    /\ engine.pc = "options"
    /\ ~engine.crashed
    /\ LET err == SocketOptions(engine, tcp, rbOK, wbOK, ndOK)
       IN  engine' = IF err = "nil"
                     THEN [engine EXCEPT !.spawned = Append(@, engine.conns),
                                         !.pc = "check"]
                     ELSE [engine EXCEPT !.pc = "returned", !.ret = err, !.last = err]
    /\ UNCHANGED <<msgVars, sessVars, rctx, pools, svcVars>>

\* the Engine is stopped: its stop signal is set
StopEngine ==
    /\ engine.stopped = "open"
    /\ ~engine.crashed
    /\ engine' = [engine EXCEPT !.stopped = "closed"]
    /\ UNCHANGED <<msgVars, sessVars, rctx, pools, svcVars>>

----------------------------------------------------------------------------
(* routeContext: operations *)

\* what a handler does: "next" calls c.Next() once and returns after it,
\* "return" returns without calling it
HandlerKinds == {"next", "return"}

\* the handler chains of up to n handlers
RECURSIVE Chains(_)
Chains(n) ==
    IF n = 0 THEN {<<>>}
    ELSE Chains(n - 1) \cup
         {Append(hs, k) : hs \in {c \in Chains(n - 1) : Len(c) = n - 1},
                          k \in HandlerKinds}

\* the keys handlers store
Keys == {"user"}

\* c.reset()
ResetContext(c) ==
    [c EXCEPT !.rawCtx = "background", !.session = "nil", !.reqMsg = 0,
              !.rspMsg = 0, !.storage = {}]

\* the fields of c as NewContext() sets them
FieldsOf(c) ==
    [rawCtx |-> c.rawCtx, storage |-> c.storage, handlers |-> c.handlers,
     index |-> c.index, reqMsg |-> c.reqMsg, rspMsg |-> c.rspMsg,
     session |-> c.session]

\* s.AllocateContext(): c := s.ctxPool.Get(), which returns a pooled object
\* (reuse) or, the pool being empty or having dropped it, NewContext();
\* c.reset(); c.SetSession(s)
AllocateContext(s, reuse) ==
    /\ rctx.at \in {"new", "pooled"}
    /\ reuse => rctx.at = "pooled"
    /\ rctx.allocs < MaxAllocs
    /\ LET c == IF reuse THEN rctx
                ELSE [NewContext EXCEPT !.allocs = rctx.allocs]
       IN  rctx' = [ResetContext(c) EXCEPT !.session = s, !.by = s,
                        !.at = "allocated", !.touched = FALSE,
                        !.allocs = @ + 1, !.ran = FALSE, !.from = 0,
                        !.stack = <<>>,
                        !.invoked = <<>>, !.quiet = {}]
    /\ UNCHANGED <<msgVars, sessVars, engine, pools, svcVars>>

\* handleReq: SetRequestMessage(reqEntry)
SetRequestMessage ==
    /\ rctx.at = "allocated"
    /\ rctx.reqMsg = 0
    /\ rctx' = [rctx EXCEPT !.reqMsg = rctx.allocs, !.touched = TRUE]
    /\ UNCHANGED <<msgVars, sessVars, engine, pools, svcVars>>

\* a handler: c.SetResponse(...) / c.SetResponseMessage(msg)
SetResponseMessage ==
    /\ rctx.at = "allocated"
    /\ rctx.rspMsg = 0
    /\ rctx' = [rctx EXCEPT !.rspMsg = rctx.allocs, !.touched = TRUE]
    /\ UNCHANGED <<msgVars, sessVars, engine, pools, svcVars>>

\* a handler: c.SetValue(k, v)
SetValue(k) ==
    /\ rctx.at = "allocated"
    /\ k \notin rctx.storage
    /\ rctx' = [rctx EXCEPT !.storage = @ \cup {k}, !.touched = TRUE]
    /\ UNCHANGED <<msgVars, sessVars, engine, pools, svcVars>>

\* a handler: c.WithContext(ctx), ctx a context that can be cancelled or
\* one that is
WithContext(scope) ==
    /\ rctx.at = "allocated"
    /\ rctx.rawCtx = "background"
    /\ rctx' = [rctx EXCEPT !.rawCtx = scope, !.touched = TRUE]
    /\ UNCHANGED <<msgVars, sessVars, engine, pools, svcVars>>

\* the matched chain is stored in the Context (as ServeHTTP does:
\* c.handlers = middlewares; elsewhere through *c.Handlers())
SetHandlers(hs) ==
    /\ rctx.at = "allocated"
    /\ ~rctx.ran
    /\ rctx.handlers # hs
    /\ rctx' = [rctx EXCEPT !.handlers = hs, !.touched = TRUE]
    /\ UNCHANGED <<msgVars, sessVars, engine, pools, svcVars>>

\* c.Next() is entered: c.index++.  It is called to start the chain, or by
\* the running handler, once, if it is one that calls it
NextEnter ==
    /\ rctx.at = "allocated"
    /\ \/ rctx.stack = <<>> /\ ~rctx.ran
       \/ /\ rctx.stack # <<>>
          /\ rctx.stack[Len(rctx.stack)].kind = "handler"
          /\ ~rctx.stack[Len(rctx.stack)].called
          /\ rctx.handlers[rctx.stack[Len(rctx.stack)].h + 1] = "next"
    /\ rctx' = [rctx EXCEPT
                   !.index = @ + 1, !.ran = TRUE, !.touched = TRUE,
                   !.from = IF rctx.stack = <<>> THEN rctx.index ELSE @,
                   !.stack = Append(IF @ = <<>> THEN @
                                    ELSE [@ EXCEPT ![Len(@)].called = TRUE],
                                    [kind |-> "next", h |-> 0, called |-> FALSE])]
    /\ UNCHANGED <<msgVars, sessVars, engine, pools, svcVars>>

\* c.Next(): for ; c.index < s; ... { c.handlers[c.index](c) }: the test,
\* then the call of the handler at the cursor, or the return of Next
NextLoop ==
    /\ rctx.stack # <<>>
    /\ rctx.stack[Len(rctx.stack)].kind = "next"
    /\ rctx' = IF rctx.index < Len(rctx.handlers)
               THEN [rctx EXCEPT
                       !.stack = Append(@, [kind |-> "handler", h |-> rctx.index,
                                            called |-> FALSE]),
                       !.invoked = Append(@, rctx.index)]
               ELSE [rctx EXCEPT !.stack = SubSeq(@, 1, Len(@) - 1)]
    /\ UNCHANGED <<msgVars, sessVars, engine, pools, svcVars>>

\* HandlerReturn without the c.index++ of the loop
HandlerReturnNoAdvance ==
    /\ rctx.stack # <<>>
    /\ LET f == rctx.stack[Len(rctx.stack)]
       IN  /\ f.kind = "handler"
           /\ rctx.handlers[f.h + 1] = "next" => f.called
           /\ rctx' = [rctx EXCEPT !.stack = SubSeq(@, 1, Len(@) - 1)]
    /\ UNCHANGED <<msgVars, sessVars, engine, pools, svcVars>>

\* the running handler returns to the loop of Next, which does c.index++
HandlerReturn ==
    /\ rctx.stack # <<>>
    /\ LET f == rctx.stack[Len(rctx.stack)]
       IN  /\ f.kind = "handler"
           /\ rctx.handlers[f.h + 1] = "next" => f.called
           /\ rctx' = [rctx EXCEPT
                          !.stack = SubSeq(@, 1, Len(@) - 1),
                          !.index = @ + 1,
                          !.quiet = IF f.called THEN @
                                    ELSE @ \cup {[h |-> f.h, at |-> Len(rctx.invoked)]}]
    /\ UNCHANGED <<msgVars, sessVars, engine, pools, svcVars>>

\* packResponse: defer s.ctxPool.Put(ctx)
PutContext ==
    /\ rctx.at = "allocated"
    /\ rctx.stack = <<>>
    /\ rctx.reqMsg # 0
    /\ rctx' = [rctx EXCEPT !.at = "pooled"]
    /\ UNCHANGED <<msgVars, sessVars, engine, pools, svcVars>>

----------------------------------------------------------------------------
(* routeContext: the key-value store *)

StoreOps == {"Value", "SetValue", "Remove", "DeleteKey"}

ValueStoreOnly(has, raw, key) == IF has THEN "stored" ELSE "nil"

\* Value: if v, ok := c.storage[key]; ok { return v }; return
\* c.rawCtx.Value(key)
ValueOf(has, raw, key) ==
    IF has THEN "stored" ELSE IF key \in raw.vals THEN "raw" ELSE "nil"

\* goroutine g calls op(key) on Context x.  A key that is not a string:
\* Value returns nil, SetValue and DeleteKey return, without locking
\* (Remove takes strings only).  A string: c.mu.Lock() is passed
StoreBegin(g, x, op, key) ==
    /\ stores.th[g].pc = "idle"
    /\ stores.ctxs[x].made
    /\ stores.ops < MaxStoreOps
    /\ op = "Remove" => IsString(key)
    /\ IsString(key) => stores.ctxs[x].mu = "free"
    /\ LET t == [IdleThread EXCEPT !.op = op, !.x = x, !.key = key,
                                   !.raw0 = stores.ctxs[x].rawCtx]
       IN  stores' = IF IsString(key)
                     THEN [stores EXCEPT !.ops = @ + 1, !.ctxs[x].mu = g,
                                         !.th[g] = [t EXCEPT !.pc = "locked"]]
                     ELSE [stores EXCEPT !.ops = @ + 1,
                                         !.th[g] = [t EXCEPT !.fin = TRUE]]
    /\ UNCHANGED <<msgVars, sessVars, engine, rctx, pools, svc>>

\* the map access of the operation, under the lock: Value and SetValue make
\* the map if c.storage is nil; DeleteKey returns if it is; delete on a nil
\* map (Remove) does nothing
StoreAccess(g) ==
    /\ stores.th[g].pc = "locked"
    /\ LET t == stores.th[g]
           c == stores.ctxs[t.x]
           makes == c.storage = 0 /\ t.op \in {"Value", "SetValue"}
           id == IF makes THEN Len(stores.maps) + 1 ELSE c.storage
           maps == IF makes THEN Append(stores.maps, {}) ELSE stores.maps
           has == id # 0 /\ t.key \in maps[id]
       IN  stores' = [stores EXCEPT
                        !.ctxs[t.x].storage = id,
                        !.maps = IF id = 0 \/ t.op = "Value" THEN maps
                                 ELSE IF t.op = "SetValue"
                                      THEN [maps EXCEPT ![id] = @ \cup {t.key}]
                                 ELSE [maps EXCEPT ![id] = @ \ {t.key}],
                        !.th[g] = [t EXCEPT
                                     !.pc = "accessed", !.hit = has,
                                     !.res = IF t.op = "Value"
                                             THEN ValueOf(has, c.rawCtx, t.key)
                                             ELSE "nil"]]
    /\ UNCHANGED <<msgVars, sessVars, engine, rctx, pools, svc>>

\* the operation returns: c.mu.Unlock()
StoreEnd(g) ==
    /\ stores.th[g].pc = "accessed"
    /\ LET t == stores.th[g]
       IN  stores' = [stores EXCEPT
                        !.ctxs[t.x].mu = "free",
                        !.th[g] = [t EXCEPT !.pc = "idle", !.fin = TRUE,
                                            !.kept = (stores.ctxs[t.x].rawCtx = t.raw0)]]
    /\ UNCHANGED <<msgVars, sessVars, engine, rctx, pools, svc>>

\* d := c.Copy(): a new routeContext (with a mutex of its own) holding c's
\* rawCtx and c's storage, the same map if c has one
CopyContext ==
    /\ ~stores.ctxs["d"].made
    /\ stores' = [stores EXCEPT
                    !.ctxs["d"] = [made |-> TRUE, mu |-> "free",
                                   storage |-> stores.ctxs["c"].storage,
                                   rawCtx |-> stores.ctxs["c"].rawCtx]]
    /\ UNCHANGED <<msgVars, sessVars, engine, rctx, pools, svc>>

\* x.WithContext(ctx), ctx a context that can be cancelled and holds values
\* for the keys vals, called between store operations
StoreWithContext(x, vals) ==
    /\ stores.ctxs[x].made
    /\ stores.ctxs[x].rawCtx = Background
    /\ \A g \in Threads : stores.th[g].pc = "idle"
    /\ stores' = [stores EXCEPT !.ctxs[x].rawCtx = [scope |-> "live", vals |-> vals]]
    /\ UNCHANGED <<msgVars, sessVars, engine, rctx, pools, svc>>

----------------------------------------------------------------------------
(* ServiceManager: operations *)

\* pool.ReflectTypePools.Init(argType); Init(replyType), as Register and
\* RegisterFunction call them for every method installed
InitArgReplyPools(p) ==
    [p EXCEPT !.pools = [t \in Types |-> [NilPool EXCEPT !.made = TRUE]]]

\* svc.Register(rcvr, name, true), methods the suitable methods of rcvr:
\* an error for an empty name or no suitable method, else
\* svc.serviceMap[name] = service.  suitableMethods has initialised the
\* pools of every suitable method's types before
Register(name, methods) ==
    /\ svc.ops < MaxSvcOps
    /\ LET ok == name # "" /\ methods # {}
           r == [NoSvcRet EXCEPT !.call = "Register", !.name = name,
                    !.err = IF name = "" THEN "no service name"
                            ELSE IF methods = {} THEN "no exported methods"
                            ELSE "nil"]
       IN  /\ svc' = [svc EXCEPT
                       !.ops = @ + 1, !.ret = r,
                       !.unregistered = IF ok THEN FALSE ELSE @,
                       !.serviceMap = IF ok
                           THEN [@ EXCEPT ![name] = [present |-> TRUE,
                                                     method |-> methods]]
                           ELSE @]
           /\ pools' = IF name # "" /\ methods # {} THEN InitArgReplyPools(pools)
                       ELSE pools
    /\ UNCHANGED <<msgVars, sessVars, engine, rctx, stores>>

\* svc.RegisterFunction(servicePath, fn, fname, true); suitable: fn passes
\* every check of its kind and signature.  The method is added to the
\* Service of the path, a new one if the map has none
RegisterFunction(servicePath, fname, suitable) ==
    /\ svc.ops < MaxSvcOps
    /\ LET ok == suitable /\ fname # ""
           r == [NoSvcRet EXCEPT !.call = "RegisterFunction", !.name = servicePath,
                    !.err = IF ~suitable THEN "unsuitable function"
                            ELSE IF fname = "" THEN "no func name" ELSE "nil"]
       IN  /\ svc' = [svc EXCEPT
                       !.ops = @ + 1, !.ret = r,
                       !.unregistered = IF ok THEN FALSE ELSE @,
                       !.serviceMap = IF ok
                           THEN [@ EXCEPT ![servicePath] =
                                    [present |-> TRUE, method |-> @.method \cup {fname}]]
                           ELSE @]
           /\ pools' = IF ok THEN InitArgReplyPools(pools) ELSE pools
    /\ UNCHANGED <<msgVars, sessVars, engine, rctx, stores>>

\* svc.UnregisterAll(): under the read lock, collects the keys of the
\* serviceMap and returns them
UnregisterAll ==
    /\ svc.ops < MaxSvcOps
    /\ svc' = [svc EXCEPT
                 !.ops = @ + 1, !.unregistered = TRUE,
                 !.names = {n \in ServiceNames : svc.serviceMap[n].present},
                 !.ret = [NoSvcRet EXCEPT !.call = "UnregisterAll"]]
    /\ UNCHANGED <<msgVars, sessVars, engine, rctx, pools, stores>>

\* svc.Service(serviceName): the entry of the map, nil if it has none
Service(serviceName) ==
    /\ svc.ops < MaxSvcOps
    /\ svc' = [svc EXCEPT
                 !.ops = @ + 1,
                 !.ret = [NoSvcRet EXCEPT !.call = "Service", !.name = serviceName,
                             !.found = svc.serviceMap[serviceName].present]]
    /\ UNCHANGED <<msgVars, sessVars, engine, rctx, pools, stores>>

\* svc.ServiceMethod(serviceName, method)
ServiceMethod(serviceName, method) ==
    /\ svc.ops < MaxSvcOps
    /\ LET s == svc.serviceMap[serviceName]
       IN  svc' = [svc EXCEPT
                    !.ops = @ + 1,
                    !.ret = [call |-> "ServiceMethod", name |-> serviceName,
                             found |-> s.present,
                             err |-> IF ~s.present THEN "not found service"
                                     ELSE IF method \notin s.method
                                          THEN "not found method or function"
                                     ELSE "nil"]]
    /\ UNCHANGED <<msgVars, sessVars, engine, rctx, pools, stores>>

----------------------------------------------------------------------------
(* TypePools: operations *)

\* TypePools.New: reflect.New(t.Elem()) for a pointer type, reflect.New(t)
\* otherwise: a pointer to a new zero value (of type t itself for a pointer
\* type, of type *t otherwise)
NewValue(t) ==
    [fresh |-> TRUE, type |-> IF t = "*Args" THEN "*Args" ELSE "*int", x |-> "zero"]

\* a value taken from a pool
Pooled(x) ==
    [fresh |-> FALSE, type |-> IF x = "args" THEN "*Args" ELSE "int", x |-> x]

\* the record of an operation
PoolOp(op, t, x) == [op |-> op, t |-> t, x |-> x, use |-> pools.UsePool]

\* p after an operation recorded as o
Logged(p, o) == [p EXCEPT !.ops = @ + 1, !.prior = pools.last, !.last = o]

\* UsePool = b
SetUsePool(b) ==
    /\ ~pools.fault
    /\ pools.ops < MaxPoolOps
    /\ pools.UsePool # b
    /\ pools' = [Logged(pools, PoolOp("set", "int", "42")) EXCEPT !.UsePool = b]
    /\ UNCHANGED <<msgVars, sessVars, engine, rctx, svcVars>>

\* p.Init(t): p.pools[t] = a new sync.Pool
PoolInit(t) ==
    /\ ~pools.fault
    /\ pools.ops < MaxPoolOps
    /\ pools' = [Logged(pools, PoolOp("init", t, "42")) EXCEPT
                    !.pools[t] = [NilPool EXCEPT !.made = TRUE]]
    /\ UNCHANGED <<msgVars, sessVars, engine, rctx, svcVars>>

\* p.Put(t, x): nothing unless UsePool; x.Reset() if x has the method;
\* p.pools[t].Put(x), a nil pointer dereference if Init(t) was never called.
\* kept: sync.Pool keeps x (it may drop any value at any time, and drops
\* one in four at once in a build with the race detector)
PoolPut(t, x, kept) ==
    /\ ~pools.fault
    /\ pools.ops < MaxPoolOps
    /\ LET p == [Logged(pools, PoolOp("put", t, x)) EXCEPT !.before = pools.pools]
       IN  pools' =
             IF ~pools.UsePool THEN p
             ELSE LET q == IF x = "args" THEN [p EXCEPT !.dirty = FALSE] ELSE p
                  IN  IF ~pools.pools[t].made THEN [q EXCEPT !.fault = TRUE]
                      ELSE IF kept THEN [q EXCEPT !.pools[t].items[x] = @ + 1]
                      ELSE q
    /\ UNCHANGED <<msgVars, sessVars, engine, rctx, svcVars>>

\* p.Get(t): p.New(t) unless UsePool; else p.pools[t].Get(), a nil pointer
\* dereference if Init(t) was never called.  hit: sync.Pool finds the
\* value x it holds and removes it; else (the pool is empty, or the value
\* is out of this goroutine's reach or was dropped) it returns p.New(t)
PoolGet(t, x, hit) ==
    /\ ~pools.fault
    /\ pools.ops < MaxPoolOps
    /\ hit => pools.UsePool /\ pools.pools[t].made /\ pools.pools[t].items[x] > 0
    /\ LET p == Logged(pools, PoolOp("get", t, x))
       IN  pools' =
             IF ~pools.UsePool THEN [p EXCEPT !.got = NewValue(t)]
             ELSE IF ~pools.pools[t].made THEN [p EXCEPT !.fault = TRUE]
             ELSE IF hit
                  THEN [p EXCEPT !.got = Pooled(x), !.pools[t].items[x] = @ - 1,
                                 !.dirty = IF x = "args" THEN TRUE ELSE @]
             ELSE [p EXCEPT !.got = NewValue(t)]
    /\ UNCHANGED <<msgVars, sessVars, engine, rctx, svcVars>>

----------------------------------------------------------------------------
(* SpecDefault: one Session of an Engine whose write-attempt count and     *)
(* response-queue size are zero, as New() leaves them, or set around zero; *)
(* the handlers set a response or not and every Write succeeds.            *)

\* New() and the Engines that differ from it in the settings passed on to
\* the Session
DefaultEngines ==
    {[NewEngine EXCEPT !.writeAttemptTimes = k, !.respQueueSize = n,
                       !.asyncRouter = a] :
        k \in -1..DefaultWriteAttemptTimes, n \in 0..QueueSize, a \in BOOLEAN}

InitDefault ==
    /\ NoMessages
    /\ engine \in DefaultEngines
    /\ rctx = NewContext
    /\ pools = NewPools
    /\ NoServices
    /\ cfg = [s \in Sessions |-> IF s = TheSession THEN CfgOf(engine) ELSE DefaultCfg]
    /\ sess = [s \in Sessions |-> NewSession]
    /\ tasks = [s \in Sessions |-> [i \in Reqs |-> NewTask]]
    /\ rl = [s \in Sessions |-> NewReadLoop]
    /\ wl = [s \in Sessions |-> NewWriteLoop]
    /\ conn = [s \in Sessions |-> NewConn]

DefaultStep(s) ==
    \/ RlCheck(s)
    \/ RlUnpackReq(s)
    \/ RlUnpackErr(s)
    \/ RlClose(s)
    \/ \E i \in Reqs, rsp \in BOOLEAN : Handle(s, i, rsp, "background")
    \/ \E i \in Reqs : Send(s, i)
    \/ WlReturn(s)
    \/ \E packOK \in BOOLEAN : WlDequeue(s, packOK, TRUE)
    \/ WlWrite(s, "nil")
    \/ EngineCloseConn(s)

NextDefault == DefaultStep(TheSession)

SpecDefault == InitDefault /\ [][NextDefault]_vars

\* C21: with a configured write-attempt count <= 0 (an Engine built by
\* New() included) DefaultWriteAttemptTimes is used: a response reported
\* written was passed to at least one Write call on the connection.
C21_DefaultAttempts ==
    LET w == wl[TheSession]
    IN  (cfg[TheSession].attemptTimes <= 0 /\ w.returned /\ w.err = "nil") =>
            /\ Len(w.calls) >= DefaultWriteAttemptTimes
            /\ w.ctx \in Range(conn[TheSession].out)

----------------------------------------------------------------------------
(* SpecRead: one Session, served by handleConn (streamSession) or by        *)
(* ServeWS (wsSession), whose peer may go away, after which every read      *)
(* fails.  The Session's own steps are scheduled fairly.                    *)

\* the transports: no Session, or the Session, is a wsSession
Transports == {{}, {TheSession}}

InitRead ==
    /\ NoMessages
    /\ engine \in {[NewEngine EXCEPT !.ws = w, !.asyncRouter = a,
                                      !.respQueueSize = QueueSize,
                                      !.writeAttemptTimes = DefaultWriteAttemptTimes] :
                       w \in Transports, a \in BOOLEAN}
    /\ rctx = NewContext
    /\ pools = NewPools
    /\ NoServices
    /\ cfg = [s \in Sessions |-> IF s = TheSession THEN CfgOf(engine) ELSE DefaultCfg]
    /\ sess = [s \in Sessions |-> NewSession]
    /\ tasks = [s \in Sessions |-> [i \in Reqs |-> NewTask]]
    /\ rl = [s \in Sessions |-> NewReadLoop]
    /\ wl = [s \in Sessions |-> NewWriteLoop]
    /\ conn = [s \in Sessions |-> NewConn]

\* the steps of the Session's goroutines; a read from a connection whose
\* peer is gone returns its error
ReadProgress(s) ==
    \/ RlCheck(s)
    \/ conn[s].readFails /\ s \notin engine.ws /\ RlUnpackErr(s)
    \/ RlUnpackClosed(s)
    \/ WsReadErr(s)
    \/ RlClose(s)
    \/ \E i \in Reqs, rsp \in BOOLEAN : Handle(s, i, rsp, "background")
    \/ \E i \in Reqs : Send(s, i)
    \/ WlReturn(s)
    \/ WlDequeue(s, TRUE, TRUE)
    \/ \E err \in {"nil", "netOther"} : WlWrite(s, err)
    \/ WlClose(s)
    \/ EngineCloseConn(s)

\* the peer: it sends a request, data that unpacks to nothing, a frame that
\* does not unpack, or goes away
ReadEnvironment(s) ==
    \/ ~conn[s].readFails /\ RlUnpackReq(s)
    \/ ~conn[s].readFails /\ RlUnpackNil(s)
    \/ ~conn[s].readFails /\ RlUnpackErr(s)
    \/ ConnBreak(s)

NextRead == ReadProgress(TheSession) \/ ReadEnvironment(TheSession)

SpecRead == InitRead /\ [][NextRead]_vars /\ WF_vars(ReadProgress(TheSession))

\* C22: in both transports, when reading from the connection fails and
\* keeps failing, the read loop terminates and the Session's closed signal
\* is fired.
C22_ReadFailureCloses ==
    conn[TheSession].readFails ~>
        (rl[TheSession].pc = "done" /\ sess[TheSession].closed)

----------------------------------------------------------------------------
(* SpecAccept: the accept loop of an Engine as New() returns it, or of one  *)
(* whose channels are made and whose socket options are set; the listener   *)
(* returns connections and errors of every kind, and the Engine may be      *)
(* stopped at any time.  The loop's own steps are scheduled fairly.         *)

\* an Engine ready to serve: accepting and stopped are made, the socket
\* options set or not
ServingEngines ==
    {[NewEngine EXCEPT !.accepting = "open", !.stopped = "open",
                       !.socketReadBufferSize = rb, !.socketWriteBufferSize = wb,
                       !.socketSendDelay = nd,
                       !.respQueueSize = QueueSize,
                       !.writeAttemptTimes = DefaultWriteAttemptTimes] :
        rb \in 0..1, wb \in 0..1, nd \in BOOLEAN}

InitAccept ==
    /\ NoMessages
    /\ NoSessions
    /\ engine \in ServingEngines \cup {NewEngine}
    /\ rctx = NewContext
    /\ pools = NewPools
    /\ NoServices

\* the steps of the acceptLoop goroutine
AcceptProgress ==
    \/ AcceptStart
    \/ AcceptCheck
    \/ AcceptFailed
    \/ \E tcp, rbOK, wbOK, ndOK \in BOOLEAN : AcceptOptions(tcp, rbOK, wbOK, ndOK)

NextAccept ==
    \/ AcceptProgress
    \/ AcceptConn
    \/ \E err \in AcceptErrors : AcceptErr(err)
    \/ StopEngine

SpecAccept == InitAccept /\ [][NextAccept]_vars /\ WF_vars(AcceptProgress)

\* C24: the accept loop returns ErrServerStopped when it finds the stop
\* signal set (before Accept, or after a failed Accept); after a failed
\* Accept with a temporary network error it goes round again and does not
\* return; after a failed Accept with any other error it returns that error
\* and no session is spawned.
C24_AcceptLoop ==
    /\ [](/\ engine.ret = "ErrServerStopped" => IsStopped(engine)
          /\ engine.ret = "acceptErr" =>
                /\ ~(IsNetError(engine.last) /\ Temporary(engine.last))
                /\ Len(engine.spawned) = engine.conns)
    /\ [][/\ (engine.pc \in {"check", "failed"} /\ IsStopped(engine)
               /\ engine'.pc # engine.pc) =>
                  (engine'.pc = "returned" /\ engine'.ret = "ErrServerStopped")
          /\ (engine.pc = "failed" /\ ~IsStopped(engine)
               /\ engine'.pc # engine.pc) =>
                  IF IsNetError(engine.last) /\ Temporary(engine.last)
                  THEN engine'.pc = "check" /\ engine'.ret = "none"
                  ELSE /\ engine'.pc = "returned"
                       /\ engine'.ret = "acceptErr"
                       /\ engine'.spawned = engine.spawned]_vars
    /\ ((engine.pc = "failed" /\ ~IsStopped(engine)
         /\ IsNetError(engine.last) /\ Temporary(engine.last))
            ~> (engine.pc = "accept" \/ engine.ret = "ErrServerStopped"))

\* after two temporary failures a connection was accepted and served, and
\* the loop then returned on the stop signal
C24_Witness ==
    /\ engine.retries = MaxAcceptErrs
    /\ Len(engine.spawned) >= 1
    /\ engine.last = "conn"
    /\ engine.ret = "ErrServerStopped"

\* C40: once RunStream has bound its listener and entered the accept loop,
\* on an Engine as New() returns it as on any other, the accepting signal
\* has fired (once: a second close would fault) and nothing has faulted on
\* the way to the first Accept.
C40_RunStreamFromNew ==
    /\ ~engine.crashed
    /\ engine.pc # "idle" => engine.accepting = "closed"

\* C25: a failure to set the read buffer size, the write buffer size or the
\* no-delay option of an accepted connection does not make the accept loop
\* return: a Session is spawned for that connection all the same and later
\* connections are accepted.
C25_BestEffortOptions ==
    /\ engine.ret \notin {"readBufferErr", "writeBufferErr", "noDelayErr"}
    /\ engine.pc \in {"check", "accept", "failed", "returned"} =>
            Len(engine.spawned) = engine.conns

----------------------------------------------------------------------------
(* SpecEngine: an Engine ready to serve, its accept loop and the Sessions   *)
(* of the connections it accepts.  The peers send requests and frames that  *)
(* do not unpack; handlers respond; nothing is stopped or cancelled.        *)

\* the Session handleConn creates for the n-th accepted connection
SessionIds == <<"s1", "s2">>

\* handleConn has been started for the connection of Session s
Served(s) ==
    \E n \in Range(engine.spawned) : n \in DOMAIN SessionIds /\ SessionIds[n] = s

InitEngine ==
    /\ NoMessages
    /\ engine \in {e \in ServingEngines :
                      /\ e.socketReadBufferSize = 0
                      /\ e.socketWriteBufferSize = 0}
    /\ rctx = NewContext
    /\ pools = NewPools
    /\ NoServices
    /\ cfg = [s \in Sessions |-> CfgOf(engine)]
    /\ sess = [s \in Sessions |-> NewSession]
    /\ tasks = [s \in Sessions |-> [i \in Reqs |-> NewTask]]
    /\ rl = [s \in Sessions |-> NewReadLoop]
    /\ wl = [s \in Sessions |-> NewWriteLoop]
    /\ conn = [s \in Sessions |-> NewConn]

\* Session s is being served and no panic has ended the process
Running(s) == Served(s) /\ ~engine.crashed

\* the steps of the goroutines of Session s and of its peer
EngineSessionStep(s) ==
    \/ Running(s) /\ RlCheck(s)
    \/ Running(s) /\ RlUnpackReq(s)
    \/ Running(s) /\ RlUnpackErr(s)
    \/ Running(s) /\ RlUnpackPanic(s)
    \/ Running(s) /\ RlUnpackClosed(s)
    \/ Running(s) /\ RlClose(s)
    \/ Running(s) /\ \E i \in Reqs : Handle(s, i, TRUE, "background")
    \/ Running(s) /\ \E i \in Reqs : Send(s, i)
    \/ Running(s) /\ WlReturn(s)
    \/ Running(s) /\ WlDequeue(s, TRUE, TRUE)
    \/ Running(s) /\ \E err \in {"nil", "netOther"} : WlWrite(s, err)
    \/ Running(s) /\ WlClose(s)
    \/ Running(s) /\ EngineCloseConn(s)

NextEngine ==
    \/ AcceptStart
    \/ AcceptCheck
    \/ AcceptConn
    \/ \E tcp \in BOOLEAN : AcceptOptions(tcp, TRUE, TRUE, TRUE)
    \/ \E s \in Sessions : EngineSessionStep(s)

SpecEngine == InitEngine /\ [][NextEngine]_vars

----------------------------------------------------------------------------
(* SpecConn: one Session and the handleConn call that serves it, in an      *)
(* Engine that may be stopped; Close is also called from outside.           *)

InitConn ==
    /\ NoMessages
    /\ engine \in {[NewEngine EXCEPT !.stopped = st, !.asyncRouter = a,
                                      !.respQueueSize = QueueSize,
                                      !.writeAttemptTimes = DefaultWriteAttemptTimes] :
                       st \in {"nil", "open"}, a \in BOOLEAN}
    /\ rctx = NewContext
    /\ pools = NewPools
    /\ NoServices
    /\ cfg = [s \in Sessions |-> IF s = TheSession THEN CfgOf(engine) ELSE DefaultCfg]
    /\ sess = [s \in Sessions |-> NewSession]
    /\ tasks = [s \in Sessions |-> [i \in Reqs |-> NewTask]]
    /\ rl = [s \in Sessions |-> NewReadLoop]
    /\ wl = [s \in Sessions |-> NewWriteLoop]
    /\ conn = [s \in Sessions |-> NewConn]

ConnStep(s) ==
    \/ RlCheck(s)
    \/ RlUnpackReq(s)
    \/ RlUnpackErr(s)
    \/ RlUnpackClosed(s)
    \/ RlClose(s)
    \/ \E i \in Reqs, rsp \in BOOLEAN : Handle(s, i, rsp, "background")
    \/ \E i \in Reqs : Send(s, i)
    \/ WlReturn(s)
    \/ WlDequeue(s, TRUE, TRUE)
    \/ \E err \in {"nil", "netOther"} : WlWrite(s, err)
    \/ WlClose(s)
    \/ EngineCloseConn(s)
    \/ ExternalClose(s)

NextConn == ConnStep(TheSession) \/ StopEngine

SpecConn == InitConn /\ [][NextConn]_vars

\* C26 as stated: Close never closes the connection, and the Engine closes
\* it only after both loops have observed the closed signal: when the
\* connection is closed neither loop is inside a socket read, a socket
\* write or a handler invocation.
C26_ConnClosedAfterLoops ==
    LET s == TheSession
    IN  ~conn[s].open =>
            /\ rl[s].pc \in {"closing", "done"}
            /\ wl[s].pc \in {"closing", "done"}
            /\ \A i \in Reqs : tasks[s][i].pc # "handle"

\* C26 amended: Close never closes the connection; the Engine closes it
\* only once the Session's closed signal has fired or the Engine's stop
\* signal is set, without waiting for the loops.
C26_ConnClosedAfterSignal ==
    /\ [](~conn[TheSession].open =>
            (sess[TheSession].closed \/ IsStopped(engine)))
    /\ [][sess'[TheSession].closed # sess[TheSession].closed => conn' = conn]_vars

\* the connection has been closed, after Close, while the read loop is
\* inside Unpack and a handler is running
C26_Witness ==
    LET s == TheSession
    IN  /\ ~conn[s].open
        /\ sess[s].closed
        /\ sess[s].extCloses > 0
        /\ rl[s].pc = "unpack"
        /\ \E i \in Reqs : tasks[s][i].pc = "handle"

----------------------------------------------------------------------------
(* SpecContext: the routeContext of a Session's ctxPool over the requests   *)
(* that use it: allocated, given a request and a chain, run through Next,   *)
(* changed by the handlers, and put back by packResponse.                   *)

InitContext ==
    /\ NoMessages
    /\ NoSessions
    /\ engine = NewEngine
    /\ rctx = NewContext
    /\ pools = NewPools
    /\ NoServices

NextContext ==
    \/ \E reuse \in BOOLEAN : AllocateContext(TheSession, reuse)
    \/ SetRequestMessage
    \/ SetResponseMessage
    \/ \E k \in Keys : SetValue(k)
    \/ \E scope \in {"live", "cancelled"} : WithContext(scope)
    \/ \E hs \in Chains(MaxHandlers) : SetHandlers(hs)
    \/ NextEnter
    \/ NextLoop
    \/ HandlerReturn
    \/ PutContext

SpecContext == InitContext /\ [][NextContext]_vars

\* C27: in a chain run through the cursor, once a handler h_i has returned
\* without calling Next, no handler h_j with j > i is invoked for that
\* request.
C27_ShortCircuit ==
    \A q \in rctx.quiet :
        \A n \in 1..Len(rctx.invoked) :
            n > q.at => rctx.invoked[n] <= q.h

\* C35: from one call of Next on a Context with cursor c and n handlers,
\* the handlers at c+1..n-1 are invoked once each in increasing order,
\* whichever of them call Next: what has been invoked is always
\* c+1, c+2, ... without gap or repetition, it is all of c+1..n-1 when the
\* first Next has returned, and also whenever a Next called by a handler
\* has returned to it (the later handlers have then all returned).
C35_ChainRunsOnceInOrder ==
    rctx.ran =>
        /\ \A k \in 1..Len(rctx.invoked) : rctx.invoked[k] = rctx.from + k
        /\ Len(rctx.invoked) <= Len(rctx.handlers)
        /\ rctx.stack = <<>> =>
              \A j \in (rctx.from + 1)..(Len(rctx.handlers) - 1) :
                  \E k \in 1..Len(rctx.invoked) : rctx.invoked[k] = j
        /\ (/\ rctx.stack # <<>>
            /\ rctx.stack[Len(rctx.stack)].kind = "handler"
            /\ rctx.stack[Len(rctx.stack)].called) =>
              /\ rctx.invoked[Len(rctx.invoked)] = Len(rctx.handlers) - 1
              /\ \A d \in 1..Len(rctx.stack) :
                    rctx.stack[d].kind = "handler" =>
                        rctx.stack[d].h <= rctx.stack[Len(rctx.stack)].h

\* a chain of three handlers whose handler 1 called Next has run to the end
C35_Witness ==
    /\ rctx.ran
    /\ rctx.stack = <<>>
    /\ rctx.from = 0
    /\ rctx.handlers = <<"next", "next", "return">>
    /\ rctx.invoked = <<1, 2>>

\* C28: the Context AllocateContext returns carries nothing of the request
\* that used the pooled object before: no request, no response, an empty
\* store, a fresh uncancelled scope, the allocating Session, and the cursor
\* and the handler list at their initial values.
C28_AllocatedIsClean ==
    (rctx.at = "allocated" /\ ~rctx.touched) =>
        FieldsOf(rctx) = [FieldsOf(NewContext) EXCEPT !.session = rctx.by]

----------------------------------------------------------------------------
(* SpecOneway: one Session serving requests with and without the oneway     *)
(* flag; the handlers set a response or none.                               *)

\* the Headers of the requests: a request Header with the oneway flag set
\* or clear
RequestHeaders == {SetOneway(NewRpcMessage.Header, o) : o \in BOOLEAN}

InitOneway ==
    /\ NoMessages
    /\ NoEngine
    /\ cfg \in {[s \in Sessions |-> [DefaultCfg EXCEPT !.asyncRouter = a,
                                                       !.respQueueSize = n]] :
                    a \in BOOLEAN, n \in 1..QueueSize}
    /\ sess = [s \in Sessions |-> NewSession]
    /\ tasks = [s \in Sessions |-> [i \in Reqs |-> NewTask]]
    /\ rl = [s \in Sessions |-> NewReadLoop]
    /\ wl = [s \in Sessions |-> NewWriteLoop]
    /\ conn = [s \in Sessions |-> NewConn]

OnewayStep(s) ==
    \/ RlCheck(s)
    \/ \E h \in RequestHeaders : RlUnpackHeader(s, h)
    \/ RlUnpackErr(s)
    \/ RlClose(s)
    \/ \E i \in Reqs, rsp \in BOOLEAN : Handle(s, i, rsp, "background")
    \/ \E i \in Reqs : Send(s, i)
    \/ WlReturn(s)
    \/ \E packOK \in BOOLEAN : WlDequeue(s, packOK, TRUE)
    \/ WlWrite(s, "nil")
    \/ EngineCloseConn(s)

NextOneway == OnewayStep(TheSession)

SpecOneway == InitOneway /\ [][NextOneway]_vars

\* C29: no response frame is written to the connection for a request whose
\* Header has the oneway flag set, whatever its handlers did.
C29_OnewayUnanswered ==
    \A n \in 1..Len(conn[TheSession].out) :
        ~tasks[conn[TheSession].out[n].sess][conn[TheSession].out[n].req].oneway

----------------------------------------------------------------------------
(* SpecPools: ReflectTypePools under any sequence of Init, Put, Get and      *)
(* changes of UsePool.                                                      *)

InitPools ==
    /\ NoMessages
    /\ NoSessions
    /\ NoEngine

NextPools ==
    \/ \E b \in BOOLEAN : SetUsePool(b)
    \/ \E t \in Types : PoolInit(t)
    \/ \E t \in Types, x \in Items, kept \in BOOLEAN : PoolPut(t, x, kept)
    \/ \E t \in Types, x \in Items, hit \in BOOLEAN : PoolGet(t, x, hit)

SpecPools == InitPools /\ [][NextPools]_vars

\* C30: while UsePool is false a Put stores nothing and a Get(t) returns a
\* pointer to a new zero value; while UsePool is true, a Get(t) of an
\* initialised type t that directly follows Put(t, x) returns x and removes
\* it from the pool.
C30_PoolContract ==
    /\ (pools.last.op = "put" /\ ~pools.last.use) => pools.pools = pools.before
    /\ (pools.last.op = "get" /\ ~pools.last.use) =>
           pools.got = NewValue(pools.last.t)
    /\ (/\ pools.last.op = "get" /\ pools.last.use /\ ~pools.fault
        /\ pools.prior.op = "put" /\ pools.prior.use
        /\ pools.prior.t = pools.last.t) =>
           /\ pools.got = Pooled(pools.prior.x)
           /\ pools.pools = pools.before

----------------------------------------------------------------------------
(* SpecServices: a ServiceManager under any sequence of registrations,      *)
(* UnregisterAll and lookups.                                               *)

InitServices ==
    /\ NoMessages
    /\ NoSessions
    /\ NoEngine

NextServices ==
    \/ \E n \in ServiceNames \cup {""}, ms \in SUBSET MethodNames : Register(n, ms)
    \/ \E n \in ServiceNames, f \in MethodNames \cup {""}, ok \in BOOLEAN :
          RegisterFunction(n, f, ok)
    \/ UnregisterAll
    \/ \E n \in ServiceNames : Service(n)
    \/ \E n \in ServiceNames, f \in MethodNames : ServiceMethod(n, f)

SpecServices == InitServices /\ [][NextServices]_vars

\* C31: after UnregisterAll has returned (and nothing was registered
\* since), Service(name) returns nil and ServiceMethod(name, m) returns an
\* error for every name that was registered before the call.
C31_UnregisteredAll ==
    (svc.unregistered /\ svc.ret.name \in svc.names) =>
        /\ svc.ret.call = "Service" => ~svc.ret.found
        /\ svc.ret.call = "ServiceMethod" => svc.ret.err # "nil"

----------------------------------------------------------------------------
(* Properties of SpecSession: a Context without response *)

\* C33: when the write loop dequeues a Context whose response is absent,
\* that step writes nothing to the connection, calls no SetWriteDeadline,
\* puts the Context into the pool once, leaves the session open or closed
\* as it was and the loop at its select, ready for the next Context.
C33_NoResponseSkipped ==
    [][(/\ wl'[TheSession].deqs = wl[TheSession].deqs + 1
        /\ ~tasks[TheSession][wl'[TheSession].ctx.req].rsp) =>
           /\ conn' = conn
           /\ wl'[TheSession].armed = wl[TheSession].armed
           /\ tasks'[TheSession][wl'[TheSession].ctx.req].puts =
                  tasks[TheSession][wl'[TheSession].ctx.req].puts + 1
           /\ \A i \in Reqs \ {wl'[TheSession].ctx.req} :
                  tasks'[TheSession][i].puts = tasks[TheSession][i].puts
           /\ sess'[TheSession].closed = sess[TheSession].closed
           /\ sess'[TheSession].fired = sess[TheSession].fired
           /\ wl'[TheSession].pc = "select"]_vars

\* with a write timeout set, the loop has skipped a Context without
\* response and is at its select with the next Context queued
C33_Witness ==
    /\ cfg[TheSession].writeTimeout > 0
    /\ wl[TheSession].ctx # NoCtx
    /\ wl[TheSession].pc = "select"
    /\ wl[TheSession].deqs = 1
    /\ ~tasks[TheSession][wl[TheSession].ctx.req].rsp
    /\ tasks[TheSession][wl[TheSession].ctx.req].puts = 1
    /\ sess[TheSession].respQueue # <<>>
    /\ ~sess[TheSession].closed
    /\ conn[TheSession].out = <<>>

----------------------------------------------------------------------------
(* SpecHandlerSend: one Session, either dispatch mode, whose handlers may   *)
(* send their own Context before router.handle returns.                     *)

InitHandlerSend ==
    /\ NoMessages
    /\ NoEngine
    /\ cfg \in {[s \in Sessions |-> [DefaultCfg EXCEPT !.asyncRouter = a,
                                                       !.respQueueSize = n]] :
                    a \in BOOLEAN, n \in 1..QueueSize}
    /\ sess = [s \in Sessions |-> NewSession]
    /\ tasks = [s \in Sessions |-> [i \in Reqs |-> NewTask]]
    /\ rl = [s \in Sessions |-> NewReadLoop]
    /\ wl = [s \in Sessions |-> NewWriteLoop]
    /\ conn = [s \in Sessions |-> NewConn]

HandlerSendStep(s) ==
    \/ RlCheck(s)
    \/ RlUnpackReq(s)
    \/ RlUnpackErr(s)
    \/ RlClose(s)
    \/ \E i \in Reqs : HandlerSend(s, i)
    \/ \E i \in Reqs, rsp \in BOOLEAN : Handle(s, i, rsp, "background")
    \/ \E i \in Reqs : Send(s, i)
    \/ WlReturn(s)
    \/ \E packOK \in BOOLEAN : WlDequeue(s, packOK, TRUE)
    \/ WlWrite(s, "nil")
    \/ EngineCloseConn(s)

NextHandlerSend == HandlerSendStep(TheSession)

SpecHandlerSend == InitHandlerSend /\ [][NextHandlerSend]_vars

\* C34: a Context that was put into the pool is not in the response queue,
\* not held by a suspended Send and not in use by its request's handler or
\* handleReq; and no Context is put into the pool twice.
C34_NoContextAliasing ==
    \A i \in Reqs :
        /\ tasks[TheSession][i].puts <= 1
        /\ tasks[TheSession][i].puts >= 1 =>
              /\ Ctx(TheSession, i) \notin Range(sess[TheSession].respQueue)
              /\ i \notin Range(sess[TheSession].sendq)
              /\ tasks[TheSession][i].pc \notin {"handle", "send", "parked"}

----------------------------------------------------------------------------
(* SpecStore: two goroutines using the store of a Context and of its copy.  *)

InitStore ==
    /\ NoMessages
    /\ NoSessions
    /\ NoEngine

NextStore ==
    \/ \E g \in Threads, x \in Contexts, op \in StoreOps, key \in StoreKeys :
          StoreBegin(g, x, op, key)
    \/ \E g \in Threads : StoreAccess(g)
    \/ \E g \in Threads : StoreEnd(g)
    \/ CopyContext
    \/ \E x \in Contexts, vals \in SUBSET {"user"} : StoreWithContext(x, vals)

SpecStore == InitStore /\ [][NextStore]_vars

\* C36: Value(key) for a string key that is not in the store returns nil
\* whatever the cancellation context holds for the key, and SetValue,
\* Remove and DeleteKey leave the cancellation context as it was.
C36_StoreIgnoresScope ==
    \A g \in Threads :
        LET t == stores.th[g]
        IN  t.fin =>
              /\ (t.op = "Value" /\ IsString(t.key) /\ ~t.hit) => t.res = "nil"
              /\ t.op \in {"SetValue", "Remove", "DeleteKey"} => t.kept

\* C36 as amended: Value(key) for a string key returns the stored value if
\* the store has the key, else what the underlying context holds for the
\* key, nil if nothing; SetValue, Remove and DeleteKey leave the
\* underlying context as it was.
C36_StoreThenScope ==
    \A g \in Threads :
        LET t == stores.th[g]
        IN  t.fin =>
              /\ (t.op = "Value" /\ IsString(t.key) /\ t.hit) => t.res = "stored"
              /\ (t.op = "Value" /\ IsString(t.key) /\ ~t.hit) =>
                    t.res = (IF t.key \in t.raw0.vals THEN "raw" ELSE "nil")
              /\ t.op \in {"SetValue", "Remove", "DeleteKey"} => t.kept

\* a Value for a key the store lacks and the underlying context holds
C36_Witness ==
    \E g \in Threads :
        /\ stores.th[g].fin
        /\ stores.th[g].op = "Value"
        /\ stores.th[g].key = "user"
        /\ ~stores.th[g].hit
        /\ stores.th[g].res = "raw"
        /\ \E h \in Threads : stores.th[h].fin /\ stores.th[h].op = "SetValue"

\* C37: no two store operations on the same map are under way at the same
\* time, also on a Context and its copy.
C37_StoreMutex ==
    \A g, h \in Threads :
        (/\ g # h
         /\ stores.th[g].pc # "idle"
         /\ stores.th[h].pc # "idle"
         /\ stores.ctxs[stores.th[g].x].storage # 0) =>
            stores.ctxs[stores.th[g].x].storage # stores.ctxs[stores.th[h].x].storage

----------------------------------------------------------------------------
(* SpecHeader: setters called on the Header of a Message, with arguments in *)
(* and out of the range of their field.                                     *)

Setters ==
    {"SetVersion", "SetMessageType", "SetHeartbeat", "SetOneway",
     "SetCompressType", "SetMessageStatusType", "SetSerializeType", "SetSeq"}

\* arguments of a byte type: codes in range, and 9 and 255 out of the range
\* of every field narrower than a byte
ByteArgs == {0, 1, 9, 255}

SetterArgs(f) == IF f \in {"SetHeartbeat", "SetOneway"} THEN {0, 1} ELSE ByteArgs

\* headers a Message may hold before the calls: all flags clear; a
\* Response; Response, oneway, status 3; every flag bit set; with the low
\* nibble of byte 3 zero or not
SomeHeaders ==
    {[NewRpcMessage.Header EXCEPT ![3] = flags, ![4] = b3, ![12] = s] :
        flags \in {0, 128, 163, 255}, b3 \in {0, 43}, s \in {0, 7}}

\* the call f(a) on the Header h; a bool is given as 0 or 1, a uint64 as
\* the byte each of its 8 bytes holds
CallSetter(f, h, a) ==
    CASE f = "SetVersion" -> SetVersion(h, a)
      [] f = "SetMessageType" -> SetMessageType(h, a)
      [] f = "SetHeartbeat" -> SetHeartbeat(h, a = 1)
      [] f = "SetOneway" -> SetOneway(h, a = 1)
      [] f = "SetCompressType" -> SetCompressType(h, a)
      [] f = "SetMessageStatusType" -> SetMessageStatusType(h, a)
      [] f = "SetSerializeType" -> SetSerializeType(h, a)
      [] f = "SetSeq" -> SetSeq(h, [i \in 1..8 |-> a])

\* dm.f(a); ret keeps the call, its argument and the Header before it
HeaderSet(f, a) ==
    /\ steps < MaxSets
    /\ dm' = [dm EXCEPT !.Header = CallSetter(f, dm.Header, a)]
    /\ ret' = [op |-> f, err |-> "nil", n |-> a, meta |-> NoMeta,
               prev |-> ret.op, h0 |-> dm.Header]
    /\ steps' = steps + 1
    /\ UNCHANGED <<m, Compressors, MaxRpcMessageLength, wire, rd>>
    /\ UNCHANGED <<sessVars, engVars>>

InitHeader ==
    /\ NoSessions
    /\ NoEngine
    /\ m = NewRpcMessage
    /\ \E h \in SomeHeaders : dm = [NewRpcMessage EXCEPT !.Header = h]
    /\ Compressors = DefaultCompressors
    /\ MaxRpcMessageLength = 0
    /\ wire = NoWire
    /\ rd = NewReader(<<>>)
    /\ ret = NoRet
    /\ steps = 0

NextHeader == \E f \in Setters : \E a \in SetterArgs(f) : HeaderSet(f, a)

SpecHeader == InitHeader /\ [][NextHeader]_vars

\* C38: MessageType() after SetMessageType(mt), mt Request or Response,
\* returns mt, whatever the header held before; a header set to Response
\* and then to Request reads back Request.
C38_SetThenGetMessageType ==
    (ret.op = "SetMessageType" /\ ret.n \in {Request, Response}) =>
        MessageType(dm.Header) = ret.n

\* the fields of the Header h other than the one the setter f owns are
\* the same in k: the magic byte, the version, the five fields of the
\* flags byte, the codec nibble, the low nibble of byte 3, the sequence
OtherFieldsSame(f, h, k) ==
    /\ Len(k) = Len(h)
    /\ k[1] = h[1]
    /\ f # "SetVersion" => Version(k) = Version(h)
    /\ f # "SetMessageType" => MessageType(k) = MessageType(h)
    /\ f # "SetHeartbeat" => IsHeartbeat(k) = IsHeartbeat(h)
    /\ f # "SetOneway" => IsOneway(k) = IsOneway(h)
    /\ f # "SetCompressType" => CompressType(k) = CompressType(h)
    /\ f # "SetMessageStatusType" => MessageStatusType(k) = MessageStatusType(h)
    /\ f # "SetSerializeType" => SerializeType(k) = SerializeType(h)
    /\ k[4] % 16 = h[4] % 16
    /\ f # "SetSeq" => Seq8(k) = Seq8(h)
    /\ \A i \in 1..Len(k) : k[i] \in 0..255

\* C39: a header setter called with any argument of its type, a code out
\* of its field's range included, changes only the bits of its own field.
C39_SetterChangesOwnField ==
    ret.op \in Setters => OtherFieldsSame(ret.op, ret.h0, dm.Header)

\* a compression code of 8 or more was set on a header whose other flag
\* bits, reserved nibble and sequence are not zero
C39_Witness ==
    /\ ret.op = "SetCompressType"
    /\ ret.n >= 8
    /\ ret.h0[3] = 163
    /\ ret.h0[4] = 43
    /\ ret.h0[12] = 7
    /\ CompressType(dm.Header) = ret.n % 8

====
